---- MODULE Spec2Model ----
(***************************************************************************)
(* Model of the asynchronous polling/update engine of the Dusky Control    *)
(* Center row widgets (control_center/lib/rows.py): PollSlot, WidgetState, *)
(* _run_shell_async, AsyncPollingMixin, the state/value monitors, the      *)
(* slider's debounced writer, the thread-pool updates of LabelRow,         *)
(* SelectionRow and GridCard, and the do_unroot teardown.                  *)
(*                                                                         *)
(* One widget is modelled.  All widget handlers run on the single GTK main *)
(* thread, so a handler runs to completion before the next one starts; the *)
(* only intermediate point kept is inside _poll_command, between launching *)
(* the process and storing its handle, where the widget lock is released.  *)
(* GLib timers, process exits and file events fire at arbitrary moments    *)
(* (time is abstracted).  A second specification, SpecArgv, applies the    *)
(* command decomposition of _run_shell_async to bounded command strings.   *)
(***************************************************************************)
EXTENDS Integers, Sequences, FiniteSets, TLC

\* ------------------------------------------------------------------------
\* Bounds of the model
\* ------------------------------------------------------------------------
MaxInv == 3          \* invocations of _run_shell_async per behaviour
MaxSliderInv == 1    \* the same for a widget that also takes slider input
MaxTeardowns == 2    \* calls of do_unroot per behaviour
MaxIdle == 2         \* callbacks waiting in the GLib idle queue
MaxInputs == 3       \* slider value-changed events per behaviour
MaxPolledInputs == 1 \* the same for a slider that also polls its value
MaxTasks == 2        \* tasks submitted to the thread pool per behaviour
MaxCmdLen == 3       \* length of the command strings given to SpecArgv
SliderMax == 4       \* the slider's upper bound, in half units

\* ------------------------------------------------------------------------
\* Program constants
\* ------------------------------------------------------------------------
None == 0                       \* Python None / source id 0
FileMonitorHandle == -1         \* the Gio.FileMonitor object of the widget
SlotNames == {"icon", "monitor", "value", "misc"}
SlotOrder == <<"icon", "monitor", "value", "misc">>
DEFAULT_ICON == <<"utilities-terminal-symbolic">>
TRUE_VALUES ==
    { <<"e","n","a","b","l","e","d">>, <<"y","e","s">>, <<"t","r","u","e">>,
      <<"1">>, <<"o","n">>, <<"a","c","t","i","v","e">>, <<"s","e","t">>,
      <<"r","u","n","n","i","n","g">>, <<"o","p","e","n">>,
      <<"h","i","g","h">> }
LABEL_PLACEHOLDER == << "..." >>
Whitespace == {" ", "\n", "\t", "\r"}
Digits == <<"0","1","2","3","4","5","6","7","8","9">>

\* Texts a LabelRow value source may yield, option lists an options_command
\* may print, values a selection source may yield, badge counts and
\* button labels.
LabelTexts == { << "a" >>, << "b" >> }
InitialOptions == << "x", "y" >>
OptionLists == { << "x", "y" >>, << "y", "z" >> }
SelectionValues == { << "y" >>, << "z" >> }
BadgeTexts == { <<>>, << "3" >> }
ButtonLabels == { << "Run" >>, << "Stop" >> }

\* Standard outputs a polled command may produce (character sequences).
Stdouts == { <<>>, <<" ">>, <<"O","n","\n">>, <<"2">> }

\* ------------------------------------------------------------------------
\* String helpers (str.strip, str.lower, float)
\* ------------------------------------------------------------------------
RECURSIVE LStrip(_)
LStrip(s) == IF s # <<>> /\ Head(s) \in Whitespace THEN LStrip(Tail(s)) ELSE s

RECURSIVE RStrip(_)
RStrip(s) ==
    IF s # <<>> /\ s[Len(s)] \in Whitespace
    THEN RStrip(SubSeq(s, 1, Len(s) - 1)) ELSE s

Strip(s) == RStrip(LStrip(s))

LowerChar(c) ==
    CASE c = "O" -> "o" [] c = "N" -> "n" [] c = "T" -> "t" [] c = "F" -> "f"
      [] OTHER -> c

Lower(s) == [i \in 1..Len(s) |-> LowerChar(s[i])]

DigitValue(c) == CHOOSE d \in 0..9 : Digits[d + 1] = c

IsDigit(c) == \E d \in 0..9 : Digits[d + 1] = c

RECURSIVE DigitsValue(_)
DigitsValue(s) ==
    IF s = <<>> THEN 0
    ELSE 10 * DigitsValue(SubSeq(s, 1, Len(s) - 1)) + DigitValue(s[Len(s)])

\* Slider values are kept in half units: Units(n) is the float n.0 and
\* IntOf(v) is int(v), truncation toward zero of a non-negative float.
Units(n) == 2 * n

IntOf(v) == v \div 2

\* float(output): -1 stands for ValueError; the result is in half units.
ParseFloat(s) ==
    IF s # <<>> /\ \A i \in 1..Len(s) : IsDigit(s[i])
    THEN Units(DigitsValue(s)) ELSE -1

\* ------------------------------------------------------------------------
\* Widget configurations (RowProperties snapshots)
\* ------------------------------------------------------------------------
NoProps ==
    [cls |-> "", icon |-> FALSE, state_command |-> FALSE, key |-> FALSE,
     value_command |-> FALSE, debounce |-> FALSE, min |-> 0, step |-> 2,
     interval |-> FALSE, options_command |-> FALSE, badge_file |-> FALSE,
     button_text_file |-> FALSE]

PropsSet ==
    { [NoProps EXCEPT !.cls = "EntryRow", !.icon = TRUE],
      [NoProps EXCEPT !.cls = "ToggleRow", !.state_command = TRUE],
      [NoProps EXCEPT !.cls = "ToggleRow", !.key = TRUE],
      [NoProps EXCEPT !.cls = "ToggleRow", !.key = TRUE,
                      !.state_command = TRUE],
      [NoProps EXCEPT !.cls = "ToggleRow"],
      [NoProps EXCEPT !.cls = "SliderRow", !.value_command = TRUE,
                      !.debounce = TRUE],
      [NoProps EXCEPT !.cls = "SliderRow", !.debounce = TRUE, !.min = 1,
                      !.step = 3],
      [NoProps EXCEPT !.cls = "SliderRow", !.step = 3],
      [NoProps EXCEPT !.cls = "LabelRow", !.interval = TRUE],
      [NoProps EXCEPT !.cls = "SelectionRow", !.key = TRUE,
                      !.options_command = TRUE],
      [NoProps EXCEPT !.cls = "GridCard", !.badge_file = TRUE],
      [NoProps EXCEPT !.cls = "ButtonRow", !.button_text_file = TRUE] }

VARIABLES
    props,               \* the widget's RowProperties
    mapped,              \* Gtk.Widget.get_mapped()
    is_destroyed,        \* WidgetState.is_destroyed
    slots,               \* WidgetState.icon / monitor / value / misc
    debounce_source_id,  \* WidgetState.debounce_source_id
    inv,                 \* the invocations of _run_shell_async, by handle
    sources,             \* the armed GLib sources
    nextSource,          \* the next GLib source id
    idleq,               \* callbacks queued with GLib.idle_add
    tasks,               \* the tasks submitted to the thread pool
    pc,                  \* position of the main thread inside _poll_command
    started,             \* the start operations already called
    fmon,                \* the Gio.FileMonitor: "none", "active", "cancelled"
    ui,                  \* what the widget shows
    slider,              \* SliderRow's main-thread fields
    writes,              \* the write commands spawned by the slider
    inputs,              \* number of slider inputs so far
    burst,               \* accepted inputs since the last debounced write
    teardowns,           \* number of do_unroot calls so far
    returned,            \* the tuple returned by the last teardown
    command,             \* SpecArgv: the command string
    argv,                \* SpecArgv: the argv handed to spawnv
    file,                \* SpecSettings: the settings file of key "a"
    op,                  \* SpecSettings: the last settings call, its result
    settings_call,       \* the last settings call a widget made, its thread
    submit_failed_at,    \* tasks queued when a label submit first failed
    file_event,          \* the last event the file monitor delivered
    aged,                \* SpecSlow: invocations that outlived a timer tick
    guards,              \* SpecGuard: the reentrancy flags of the three rows
    effects,             \* SpecGuard: side effects of the user-action handlers
    manager,             \* SpecExecutor: the fields of _ExecutorManager and its pool
    callers,             \* SpecExecutor: the threads inside get() and shutdown()
    once,                \* SpecCache: the fields of _ComputeOnceCache
    waiters,             \* SpecCache: the threads inside get_or_compute
    disk,                \* SpecAtomic: the settings file of one key and the temporary files beside it
    savers,              \* SpecAtomic: the threads inside save_setting and load_setting
    app,                 \* SpecReload: config and the sidebar rows and stack children of DuskyControlCenter
    reload,              \* SpecReload: the last call of _reload_app
    finder,              \* SpecSearch: the search fields of DuskyControlCenter and its search entry
    timeouts,            \* SpecSearch: the timeouts of _execute_search pending in the main loop
    searched,            \* SpecSearch: the text of the last search-changed event and the searches executed since
    fifo,                \* SpecStt: the bytes written to the FIFO and not yet read
    stt,                 \* SpecStt: the task queue of DuskySTTDaemon, the tasks transcribed and the audio files
    requests             \* SpecStt: the requests written to the FIFO so far

guardVars == << guards, effects >>

executorVars == << manager, callers >>

cacheVars == << once, waiters >>

atomicVars == << disk, savers >>

reloadVars == << app, reload >>

searchVars == << finder, timeouts, searched >>

sttVars == << fifo, stt, requests >>

\* The variables of the specifications that stand beside the widget engine.
libVars == << guardVars, executorVars, cacheVars, atomicVars, reloadVars, searchVars, sttVars >>

baseStore == << command, argv, file, op >>

histVars == << settings_call, submit_failed_at, file_event, aged >>

\* Variables that the widget engine never touches.
storeVars == << baseStore, libVars >>

outerVars == << storeVars, settings_call, submit_failed_at, file_event, aged >>

engineVars == << props, mapped, is_destroyed, slots, debounce_source_id, inv,
                 sources, nextSource, idleq, tasks, pc, started, fmon, ui,
                 slider,
                 writes, inputs, burst, teardowns, returned >>

vars == << engineVars, outerVars >>

\* ------------------------------------------------------------------------
\* Initial state: a freshly constructed WidgetState, nothing started yet
\* ------------------------------------------------------------------------
NoneOut == <<"None">>           \* on_complete(None)

NoBurst == [n |-> 0, last |-> -1]

EmptySlot == [source_id |-> 0, cancellable |-> None, is_running |-> FALSE]

PcIdle == [at |-> "idle", slot |-> "", handle |-> None, then |-> ""]

EngineInit ==
    /\ props \in PropsSet
    /\ mapped = FALSE
    /\ is_destroyed = FALSE
    /\ slots = [s \in SlotNames |-> EmptySlot]
    /\ debounce_source_id = 0
    /\ inv = <<>>
    /\ sources = {}
    /\ nextSource = 1
    /\ idleq = <<>>
    /\ tasks = <<>>
    /\ pc = PcIdle
    /\ started = {}
    /\ fmon = "none"
    /\ ui = [icon |-> DEFAULT_ICON, active |-> FALSE, value |-> props.min,
             label |-> LABEL_PLACEHOLDER, options |-> InitialOptions,
             selected |-> 0, badge |-> [visible |-> FALSE, label |-> <<>>],
             button |-> << "Run" >>]
    /\ slider = [last_snapped |-> -1, pending_value |-> -1]
    /\ writes = <<>>
    /\ inputs = 0
    /\ burst = NoBurst
    /\ teardowns = 0
    /\ returned = <<>>

\* Python values: bool, int, float (half units), str, None, and the
\* marker of a call that raised instead of returning.
BoolVal(b) == [t |-> "bool", b |-> b, n |-> 0, s |-> <<>>]

IntVal(n) == [t |-> "int", b |-> FALSE, n |-> n, s |-> <<>>]

FloatVal(u) == [t |-> "float", b |-> FALSE, n |-> u, s |-> <<>>]

StrVal(s) == [t |-> "str", b |-> FALSE, n |-> 0, s |-> s]

NoneVal == [t |-> "None", b |-> FALSE, n |-> 0, s |-> <<>>]

UnicodeDecodeError == [t |-> "raise", b |-> FALSE, n |-> 0, s |-> <<>>]

\* No settings file yet, no settings call made.
AbsentFile ==
    [kind |-> "absent", text |-> <<>>, saved |-> FALSE, saved_b |-> FALSE,
     saved_as_int |-> FALSE]

\* No submit of the label loader has failed.
NoFailure == -1

\* No file event delivered yet; seq alternates with every delivery.
NoEvent == [type |-> "none", seq |-> FALSE]

NoCall == [fn |-> "none", thread |-> "none"]

NoOp ==
    [kind |-> "none", key |-> <<>>, value |-> NoneVal, flag |-> FALSE,
     result |-> NoneVal, seen |-> AbsentFile]

\* ToggleRow._programmatic_update_event, SliderRow._slider_changing and
\* SelectionRow._programmatic_update as the constructors leave them.
GuardVarsInit ==
    /\ guards = [programmatic_update_event |-> FALSE,
                 slider_changing |-> FALSE,
                 programmatic_update |-> FALSE]
    /\ effects = {}

\* The threads that use the executor manager.
Threads == {"t1", "t2", "t3"}

CallerIdle == [pc |-> "idle", result |-> "none"]

\* _ExecutorManager.__new__: no executor yet.  pool_shut tells whether the
\* pool that _executor refers to has been shut down.
ExecutorVarsInit ==
    /\ manager = [executor |-> "None", is_shutdown |-> FALSE,
                  lock |-> "free", pool_shut |-> FALSE]
    /\ callers = [t \in Threads |-> CallerIdle]

\* The keys asked of get_system_value.
Keys == {"cpu", "gpu"}

\* No value: the key is not in _cache.
Absent == 0

NotCalling ==
    [pc |-> "idle", key |-> "", value |-> Absent, result |-> "none",
     waited |-> FALSE]

\* _ComputeOnceCache.__init__; successes counts, per key, the computations
\* that returned a value.
CacheVarsInit ==
    /\ once = [cache |-> [k \in Keys |-> Absent], in_flight |-> {},
               successes |-> [k \in Keys |-> 0]]
    /\ waiters = [t \in Threads |-> NotCalling]

\* The content of a path that does not exist.
Missing == << "missing" >>

\* Contents save_setting is asked to write.
Contents == { <<"o", "n">>, <<"o", "f", "f">> }

NotSaving ==
    [pc |-> "idle", content |-> <<>>, result |-> "none", renamed |-> FALSE,
     seen |-> <<>>]

\* No settings file yet, no temporary file, no thread in the library.
AtomicVarsInit ==
    /\ disk = [target |-> Missing, temp |-> [t \in Threads |-> Missing]]
    /\ savers = [t \in Threads |-> NotSaving]

\* Entries of the "pages" list of a configuration: two pages with a list
\* as layout, a page whose layout is a number, an entry that is no mapping.
PageEntries ==
    { [dict |-> TRUE, title |-> "a", layout |-> "list"],
      [dict |-> TRUE, title |-> "b", layout |-> "list"],
      [dict |-> TRUE, title |-> "b", layout |-> "int"],
      [dict |-> FALSE, title |-> "", layout |-> ""] }

\* The "pages" lists of the configuration files read.
Configs ==
    {<<>>} \cup { <<p>> : p \in PageEntries }
           \cup { <<p, q>> : p, q \in PageEntries }

\* DuskyControlCenter.__init__: an empty config, no window yet.
ReloadVarsInit ==
    /\ app = [config |-> <<>>, sidebar |-> <<>>, stack |-> <<>>,
              window |-> "none"]
    /\ reload = [result |-> "none", old_config |-> <<>>]

\* Texts typed into the search entry.
SearchTexts == { <<>>, <<"a">>, <<" ", "O">>, <<"o">> }

\* The pages of the stack a sidebar row shows.
ShownPages == { <<"page-", 0>>, <<"page-", 1>> }

SearchPage == <<"search-results">>

\* The application after do_activate: the first page shown, an empty
\* search entry, no debounce timer.
SearchVarsInit ==
    /\ finder = [search_debounce_source |-> None, entry |-> <<>>,
                 changed |-> FALSE, visible |-> <<"page-", 0>>,
                 last_visible_page |-> <<>>, title |-> <<>>,
                 running |-> TRUE]
    /\ timeouts = {}
    /\ searched = [event |-> FALSE, text |-> <<>>, cancelled |-> FALSE,
                   since |-> 0, query |-> <<>>]

\* The number of requests the clients write.
MaxRequests == 3

\* Model names a request may carry.
ModelNames == { "distil-large-v3", "tiny" }

\* DuskySTTDaemon.__init__ and start(): an empty FIFO and task queue.
SttVarsInit ==
    /\ fifo = <<>>
    /\ stt = [task_queue |-> <<>>, transcribed |-> <<>>, files |-> {}]
    /\ requests = <<>>

LibInit ==
    /\ GuardVarsInit
    /\ ExecutorVarsInit
    /\ CacheVarsInit
    /\ AtomicVarsInit
    /\ ReloadVarsInit
    /\ SearchVarsInit
    /\ SttVarsInit

Init ==
    /\ EngineInit
    /\ command = <<>>
    /\ argv = <<>>
    /\ file = AbsentFile
    /\ op = NoOp
    /\ settings_call = NoCall
    /\ submit_failed_at = NoFailure
    /\ file_event = NoEvent
    /\ aged = {}
    /\ LibInit

\* ------------------------------------------------------------------------
\* GLib sources, cancellables
\* ------------------------------------------------------------------------
Source(id, kind, slot, i) == [id |-> id, kind |-> kind, slot |-> slot, inv |-> i]

\* _safe_source_remove: ids <= 0 are skipped, unknown ids are tolerated.
SafeSourceRemove(S, source_id) ==
    IF source_id > 0 THEN {x \in S : x.id # source_id} ELSE S

RECURSIVE BatchSourceRemove(_, _)
BatchSourceRemove(S, source_ids) ==
    IF source_ids = <<>> THEN S
    ELSE BatchSourceRemove(SafeSourceRemove(S, Head(source_ids)), Tail(source_ids))

\* Gio.Cancellable.cancel() on the invocation with handle h.
CancelInv(I, h) ==
    IF h \in DOMAIN I THEN [I EXCEPT ![h].cancelled = TRUE] ELSE I

\* Gio.FileMonitor.cancel() when h is the widget's file monitor.
CancelMon(f, h) ==
    IF h = FileMonitorHandle /\ f = "active" THEN "cancelled" ELSE f

\* ------------------------------------------------------------------------
\* Output handlers (run on the main thread)
\* ------------------------------------------------------------------------
Clamp(v) ==
    LET lo == props.min
        m == IF v < SliderMax THEN v ELSE SliderMax
    IN IF lo > m THEN lo ELSE m

Abs(x) == IF x < 0 THEN -x ELSE x

\* DynamicIconMixin._apply_icon_update
ApplyIconUpdate(new_icon) ==
    /\ ui' = [ui EXCEPT !.icon = new_icon]
    /\ UNCHANGED slider

\* _apply_state_update without the is_destroyed check.
ApplyStateUpdate_NoCheck(new_state) ==
    /\ ui' = [ui EXCEPT !.active = new_state]
    /\ UNCHANGED slider

\* ToggleRow._apply_state_update: the switch is set under the programmatic
\* update guard, so _on_toggle_changed returns at once.
ApplyStateUpdate(new_state) ==
    /\ ui' = IF is_destroyed THEN ui ELSE [ui EXCEPT !.active = new_state]
    /\ UNCHANGED slider

\* SliderRow._apply_value_update: the value is set under _slider_changing,
\* so the re-entrant _on_value_changed returns at once.
ApplyValueUpdate(new_value) ==
    IF is_destroyed \/ Abs(ui.value - new_value) < props.step
    THEN UNCHANGED << ui, slider >>
    ELSE /\ ui' = [ui EXCEPT !.value = Clamp(new_value)]
         /\ slider' = [slider EXCEPT !.last_snapped = Clamp(new_value)]

\* StateMonitorMixin._handle_state_output
HandleStateOutput(output) == ApplyStateUpdate(Lower(output) \in TRUE_VALUES)

\* SliderMonitorMixin._handle_value_output
HandleValueOutput(output) ==
    IF ParseFloat(output) = -1
    THEN UNCHANGED << ui, slider >>
    ELSE ApplyValueUpdate(ParseFloat(output))

\* The on_output callback bound to each slot by the start operations.
OnOutput(slot, output) ==
    CASE slot = "icon" -> ApplyIconUpdate(output)
      [] slot = "monitor" -> HandleStateOutput(output)
      [] slot = "value" -> HandleValueOutput(output)
      [] OTHER -> UNCHANGED << ui, slider >>

\* on_result reaches the call of on_output: the widget is not destroyed and
\* the output is not None.
OnOutputInvoked(output) == ~is_destroyed /\ output # NoneOut

\* on_result that clears the handle of the slot without comparing it.
OnResult_ClearAlways(slot, h, output) ==
    /\ slots' = [slots EXCEPT ![slot].is_running = FALSE,
                              ![slot].cancellable = None]
    /\ IF OnOutputInvoked(output)
       THEN OnOutput(slot, output)
       ELSE UNCHANGED << ui, slider >>

\* on_result that leaves is_running set when the fetch produced no output.
OnResult_StuckOnFailure(slot, h, output) ==
    /\ slots' = [slots EXCEPT ![slot].is_running =
                                 IF output = NoneOut THEN @ ELSE FALSE,
                              ![slot].cancellable = IF @ = h THEN None ELSE @]
    /\ IF is_destroyed \/ output = NoneOut
       THEN UNCHANGED << ui, slider >>
       ELSE OnOutput(slot, output)

\* AsyncPollingMixin._poll_command.on_result for the invocation with handle h
OnResult(slot, h, output) ==
    /\ slots' = [slots EXCEPT ![slot].is_running = FALSE,
                              ![slot].cancellable = IF @ = h THEN None ELSE @]
    /\ IF OnOutputInvoked(output)
       THEN OnOutput(slot, output)
       ELSE UNCHANGED << ui, slider >>

\* ------------------------------------------------------------------------
\* _run_shell_async and the polling engine
\* ------------------------------------------------------------------------
InvBound == IF props.cls = "SliderRow" THEN MaxSliderInv ELSE MaxInv

\* An invocation record: besides the closure state of _run_shell_async
\* (cancelled, timeout_source_id) it keeps what was observed of it: calls
\* of on_complete, whether an output was handed over (got_output), whether
\* that output came from a successful exit (exit_ok) and was empty after
\* trimming (blank), whether on_output was invoked (delivered).
NewInv(slot) ==
    [slot |-> slot, cancelled |-> FALSE, timeout_source_id |-> nextSource,
     calls |-> 0, got_output |-> FALSE, timedout |-> FALSE,
     delivered |-> FALSE, exit_ok |-> FALSE, blank |-> FALSE]

IdleCb(cb, slot, val, text) ==
    [cb |-> cb, slot |-> slot, val |-> val, text |-> text, task |-> 0]

\* _run_shell_async as called by _poll_command for `slot`; I1 is inv after
\* the caller cancelled the previous handle.  Either the process is spawned
\* (a cancellable is returned, the timeout armed) or spawnv raises
\* GLib.Error (on_complete(None) is queued on idle and None is returned).
RunShellAsync_SilentSpawnFailure(slot, I1, then) ==
    \/ /\ Len(I1) < InvBound
       /\ inv' = Append(I1, NewInv(slot))
       /\ sources' = sources \cup {Source(nextSource, "timeout", "", Len(I1) + 1)}
       /\ nextSource' = nextSource + 1
       /\ pc' = [at |-> "store", slot |-> slot, handle |-> Len(I1) + 1,
                 then |-> then]
       /\ UNCHANGED idleq
    \/ /\ Len(idleq) < MaxIdle
       /\ inv' = I1
       /\ pc' = [at |-> "store", slot |-> slot, handle |-> None, then |-> then]
       /\ UNCHANGED << idleq, sources, nextSource >>

RunShellAsync(slot, I1, then) ==
    \/ /\ Len(I1) < InvBound
       /\ inv' = Append(I1, NewInv(slot))
       /\ sources' = sources \cup {Source(nextSource, "timeout", "", Len(I1) + 1)}
       /\ nextSource' = nextSource + 1
       /\ pc' = [at |-> "store", slot |-> slot, handle |-> Len(I1) + 1,
                 then |-> then]
       /\ UNCHANGED idleq
    \/ /\ Len(idleq) < MaxIdle
       /\ inv' = I1
       /\ idleq' = Append(idleq, IdleCb("on_result", slot, FALSE, <<>>))
       /\ pc' = [at |-> "store", slot |-> slot, handle |-> None, then |-> then]
       /\ UNCHANGED << sources, nextSource >>

\* _poll_command that forgets to cancel the previous handle of the slot.
PollCommand_NoCancel(slot, S1, then) ==
    IF is_destroyed
    THEN /\ slots' = [S1 EXCEPT ![slot].is_running = FALSE]
         /\ UNCHANGED << inv, sources, nextSource, idleq, pc, fmon >>
    ELSE /\ slots' = [S1 EXCEPT ![slot].cancellable = None]
         /\ UNCHANGED fmon
         /\ RunShellAsync(slot, inv, then)

\* AsyncPollingMixin._poll_command up to the launch; S1 is slots as the
\* caller left it.
PollCommand(slot, S1, then) ==
    IF is_destroyed
    THEN /\ slots' = [S1 EXCEPT ![slot].is_running = FALSE]
         /\ UNCHANGED << inv, sources, nextSource, idleq, pc, fmon >>
    ELSE /\ slots' = [S1 EXCEPT ![slot].cancellable = None]
         /\ fmon' = CancelMon(fmon, S1[slot].cancellable)
         /\ RunShellAsync(slot, CancelInv(inv, S1[slot].cancellable), then)

\* The arming of the periodic timer with its id thrown away.
ArmPollTimer_NoStore(slot, S1) ==
    IF is_destroyed
    THEN /\ slots' = S1
         /\ UNCHANGED << sources, nextSource >>
    ELSE /\ slots' = S1
         /\ sources' = sources \cup {Source(nextSource, "poll", slot, 0)}
         /\ nextSource' = nextSource + 1

\* The timer armed by _start_poll_loop (under the lock, unless destroyed).
ArmPollTimer(slot, S1) ==
    IF is_destroyed
    THEN /\ slots' = S1
         /\ UNCHANGED << sources, nextSource >>
    ELSE /\ slots' = [S1 EXCEPT ![slot].source_id = nextSource]
         /\ sources' = sources \cup {Source(nextSource, "poll", slot, 0)}
         /\ nextSource' = nextSource + 1

\* AsyncPollingMixin._start_poll_loop
StartPollLoop(slot, immediate) ==
    IF immediate
    THEN PollCommand(slot, slots, "arm")
    ELSE /\ ArmPollTimer(slot, slots)
         /\ UNCHANGED << inv, idleq, pc, fmon >>

\* The tail of _poll_command that stores the handle without looking at
\* is_destroyed.
PollCommandStore_StoreAlways ==
    /\ pc.at = "store"
    /\ LET h == pc.handle
           S1 == IF h # None
                 THEN [slots EXCEPT ![pc.slot].cancellable = h] ELSE slots
       IN /\ inv' = inv
          /\ IF pc.then = "arm"
             THEN ArmPollTimer(pc.slot, S1)
             ELSE /\ slots' = S1
                  /\ UNCHANGED << sources, nextSource >>
    /\ pc' = PcIdle
    /\ UNCHANGED << outerVars, tasks, props, mapped, is_destroyed,
                    debounce_source_id, idleq, started, fmon, ui, slider,
                    writes, inputs, burst, teardowns, returned >>

\* The tail of _poll_command (store or cancel the new handle) followed, when
\* the caller is _start_poll_loop, by the arming of the periodic timer.
PollCommandStore ==
    /\ pc.at = "store"
    /\ LET h == pc.handle
           S1 == IF ~is_destroyed /\ h # None
                 THEN [slots EXCEPT ![pc.slot].cancellable = h] ELSE slots
       IN /\ inv' = IF is_destroyed THEN CancelInv(inv, h) ELSE inv
          /\ IF pc.then = "arm"
             THEN ArmPollTimer(pc.slot, S1)
             ELSE /\ slots' = S1
                  /\ UNCHANGED << sources, nextSource >>
    /\ pc' = PcIdle
    /\ UNCHANGED << outerVars, tasks, props, mapped, is_destroyed, debounce_source_id, idleq,
                    started, fmon, ui, slider, writes, inputs, burst,
                    teardowns, returned >>

\* _poll_tick that returns SOURCE_REMOVE for an unmapped widget.
PollTickStep_RemoveWhenUnmapped(slot) ==
    /\ pc = PcIdle
    /\ \E src \in sources : src.kind = "poll" /\ src.slot = slot
    /\ IF ~mapped
       THEN /\ sources' = {x \in sources : ~(x.kind = "poll" /\ x.slot = slot)}
            /\ UNCHANGED << slots, inv, nextSource, idleq, pc, fmon >>
       ELSE IF is_destroyed
       THEN /\ sources' = {x \in sources : ~(x.kind = "poll" /\ x.slot = slot)}
            /\ UNCHANGED << slots, inv, nextSource, idleq, pc, fmon >>
       ELSE IF slots[slot].is_running
       THEN UNCHANGED << slots, inv, sources, nextSource, idleq, pc, fmon >>
       ELSE PollCommand(slot, [slots EXCEPT ![slot].is_running = TRUE], "ret")

\* AsyncPollingMixin._poll_tick: the periodic timer of the slot fires.
PollTickStep(slot) ==
    /\ pc = PcIdle
    /\ \E src \in sources : src.kind = "poll" /\ src.slot = slot
    /\ IF ~mapped
       THEN UNCHANGED << slots, inv, sources, nextSource, idleq, pc, fmon >>
       ELSE IF is_destroyed
       THEN /\ sources' = {x \in sources : ~(x.kind = "poll" /\ x.slot = slot)}
            /\ UNCHANGED << slots, inv, nextSource, idleq, pc, fmon >>
       ELSE IF slots[slot].is_running
       THEN UNCHANGED << slots, inv, sources, nextSource, idleq, pc, fmon >>
       ELSE PollCommand(slot, [slots EXCEPT ![slot].is_running = TRUE], "ret")

PollTick(slot) ==
    /\ PollTickStep(slot)
    /\ UNCHANGED << outerVars, tasks, props, mapped, is_destroyed, debounce_source_id, started,
                    ui, slider, writes, inputs, burst, teardowns, returned >>

\* on_communicate_finish that hands over the output without noticing that
\* the cancellable was cancelled.
CompletionOutput_IgnoreCancel(cancelled, success, stdout_data) ==
    IF success /\ stdout_data # <<>> THEN Strip(stdout_data) ELSE NoneOut

\* What on_communicate_finish hands to on_complete: communicate_utf8_finish
\* raises GLib.Error when the cancellable was cancelled; otherwise the
\* stripped output of a successful process with non-empty output, else None.
CompletionOutput(cancelled, success, stdout_data) ==
    IF cancelled THEN NoneOut
    ELSE IF success /\ stdout_data # <<>> THEN Strip(stdout_data)
    ELSE NoneOut

\* _run_shell_async.on_communicate_finish for invocation i: the process
\* ended with some exit status and standard output, or the cancellable was
\* cancelled (communicate_utf8_finish then raises GLib.Error).
CommunicateFinish(i) ==
    /\ pc = PcIdle
    /\ i \in DOMAIN inv
    /\ inv[i].calls = 0
    /\ \E success \in BOOLEAN, stdout_data \in Stdouts :
         LET output == CompletionOutput(inv[i].cancelled, success, stdout_data)
         IN /\ inv' = [inv EXCEPT ![i].timeout_source_id = 0,
                                  ![i].calls = @ + 1,
                                  ![i].got_output = (output # NoneOut),
                                  ![i].delivered = OnOutputInvoked(output),
                                  ![i].exit_ok = (success /\ output # NoneOut),
                                  ![i].blank = (output = <<>>)]
            /\ OnResult(inv[i].slot, i, output)
    /\ sources' = SafeSourceRemove(sources, inv[i].timeout_source_id)
    /\ UNCHANGED << outerVars, tasks, props, mapped, is_destroyed, debounce_source_id,
                    nextSource, idleq, pc, started, fmon, writes, inputs,
                    burst, teardowns, returned >>

\* on_timeout that clears its source id but leaves the cancellable alone.
OnTimeout_NoCancel(i) ==
    /\ pc = PcIdle
    /\ i \in DOMAIN inv
    /\ \E src \in sources : src.kind = "timeout" /\ src.inv = i
    /\ inv' = [inv EXCEPT ![i].timeout_source_id = 0,
                          ![i].timedout = TRUE]
    /\ sources' = {x \in sources : ~(x.kind = "timeout" /\ x.inv = i)}
    /\ UNCHANGED << outerVars, tasks, props, mapped, is_destroyed, slots,
                    debounce_source_id, nextSource, idleq, pc, started, fmon,
                    ui, slider, writes, inputs, burst, teardowns, returned >>

\* _run_shell_async.on_timeout for invocation i
OnTimeout(i) ==
    /\ pc = PcIdle
    /\ i \in DOMAIN inv
    /\ \E src \in sources : src.kind = "timeout" /\ src.inv = i
    /\ inv' = [inv EXCEPT ![i].timeout_source_id = 0,
                          ![i].cancelled = TRUE,
                          ![i].timedout = TRUE]
    /\ sources' = {x \in sources : ~(x.kind = "timeout" /\ x.inv = i)}
    /\ UNCHANGED << outerVars, tasks, props, mapped, is_destroyed, slots, debounce_source_id,
                    nextSource, idleq, pc, started, fmon, ui, slider, writes,
                    inputs, burst, teardowns, returned >>

\* ------------------------------------------------------------------------
\* Lifecycle
\* ------------------------------------------------------------------------
HeldHandles == {slots[s].cancellable : s \in SlotNames}

\* mark_destroyed_and_get_sources that zeroes the debounce id without
\* returning it.
MarkDestroyed_DropDebounce ==
    /\ is_destroyed' = TRUE
    /\ inv' = [i \in DOMAIN inv |->
                 IF i \in HeldHandles
                 THEN [inv[i] EXCEPT !.cancelled = TRUE] ELSE inv[i]]
    /\ fmon' = IF FileMonitorHandle \in HeldHandles
               THEN CancelMon(fmon, FileMonitorHandle) ELSE fmon
    /\ slots' = [s \in SlotNames |->
                   [slots[s] EXCEPT !.cancellable = None, !.source_id = 0]]
    /\ debounce_source_id' = 0
    /\ returned' = [k \in 1..4 |-> slots[SlotOrder[k]].source_id] \o << 0 >>

\* mark_destroyed_and_get_sources that returns the ids without zeroing the
\* fields.
MarkDestroyed_KeepIds ==
    /\ is_destroyed' = TRUE
    /\ inv' = [i \in DOMAIN inv |->
                 IF i \in HeldHandles
                 THEN [inv[i] EXCEPT !.cancelled = TRUE] ELSE inv[i]]
    /\ fmon' = IF FileMonitorHandle \in HeldHandles
               THEN CancelMon(fmon, FileMonitorHandle) ELSE fmon
    /\ slots' = [s \in SlotNames |-> [slots[s] EXCEPT !.cancellable = None]]
    /\ debounce_source_id' = debounce_source_id
    /\ returned' = [k \in 1..4 |-> slots[SlotOrder[k]].source_id]
                       \o << debounce_source_id >>

\* WidgetState.mark_destroyed_and_get_sources
MarkDestroyedAndGetSources ==
    /\ is_destroyed' = TRUE
    /\ inv' = [i \in DOMAIN inv |->
                 IF i \in HeldHandles
                 THEN [inv[i] EXCEPT !.cancelled = TRUE] ELSE inv[i]]
    /\ fmon' = IF FileMonitorHandle \in HeldHandles
               THEN CancelMon(fmon, FileMonitorHandle) ELSE fmon
    /\ slots' = [s \in SlotNames |->
                   [slots[s] EXCEPT !.cancellable = None, !.source_id = 0]]
    /\ debounce_source_id' = 0
    /\ returned' = [k \in 1..4 |-> slots[SlotOrder[k]].source_id]
                       \o << debounce_source_id >>

\* do_unroot / _perform_cleanup
TeardownStep ==
    /\ teardowns < MaxTeardowns
    /\ teardowns' = teardowns + 1
    /\ MarkDestroyedAndGetSources
    /\ sources' = BatchSourceRemove(sources, returned')
    /\ UNCHANGED << outerVars, tasks, props, mapped, nextSource, idleq, pc, started, ui,
                    slider, writes, inputs, burst >>

\* The teardown on the main thread, between two handlers.
Teardown ==
    /\ pc = PcIdle
    /\ TeardownStep

\* ------------------------------------------------------------------------
\* Start operations
\* ------------------------------------------------------------------------
\* DynamicIconMixin._start_icon_update_loop
StartIconUpdateLoop ==
    /\ pc = PcIdle
    /\ props.icon
    /\ "icon" \notin started
    /\ started' = started \cup {"icon"}
    /\ StartPollLoop("icon", TRUE)
    /\ UNCHANGED << outerVars, tasks, props, mapped, is_destroyed, debounce_source_id, ui,
                    slider, writes, inputs, burst, teardowns, returned >>

\* utility.load_setting or utility.save_setting is called on the UI thread
\* ("ui") or on a worker of the shared pool ("pool").
SettingsCall(fn, thread) == settings_call' = [fn |-> fn, thread |-> thread]

\* _start_state_monitor that takes the file monitor whenever there is a key.
StartStateMonitor_KeyFirst ==
    /\ pc = PcIdle
    /\ props.cls = "ToggleRow"
    /\ "monitor" \notin started
    /\ started' = started \cup {"monitor"}
    /\ IF ~props.key /\ ~props.state_command
       THEN UNCHANGED << slots, inv, sources, nextSource, idleq, pc, fmon >>
       ELSE IF ~props.key
       THEN StartPollLoop("monitor", FALSE)
       ELSE \/ /\ fmon' = "active"
               /\ slots' = [slots EXCEPT
                              !["monitor"].cancellable = FileMonitorHandle]
               /\ UNCHANGED << inv, sources, nextSource, idleq, pc >>
            \/ \* monitor_file raised: the error is logged
               UNCHANGED << slots, inv, sources, nextSource, idleq, pc, fmon >>
    /\ \* ToggleRow.__init__ reads the key before it starts the monitor
       IF props.key THEN SettingsCall("load_setting", "ui")
       ELSE UNCHANGED settings_call
    /\ UNCHANGED << storeVars, aged, submit_failed_at, file_event, tasks, props, mapped, is_destroyed, debounce_source_id, ui,
                    slider, writes, inputs, burst, teardowns, returned >>

\* StateMonitorMixin._start_state_monitor
StartStateMonitor ==
    /\ pc = PcIdle
    /\ props.cls = "ToggleRow"
    /\ "monitor" \notin started
    /\ started' = started \cup {"monitor"}
    /\ IF ~props.key /\ ~props.state_command
       THEN UNCHANGED << slots, inv, sources, nextSource, idleq, pc, fmon >>
       ELSE IF props.state_command
       THEN StartPollLoop("monitor", FALSE)
       ELSE \/ /\ fmon' = "active"
               /\ slots' = [slots EXCEPT
                              !["monitor"].cancellable = FileMonitorHandle]
               /\ UNCHANGED << inv, sources, nextSource, idleq, pc >>
            \/ \* monitor_file raised: the error is logged
               UNCHANGED << slots, inv, sources, nextSource, idleq, pc, fmon >>
    /\ \* ToggleRow.__init__ reads the key before it starts the monitor
       IF props.key THEN SettingsCall("load_setting", "ui")
       ELSE UNCHANGED settings_call
    /\ UNCHANGED << storeVars, aged, submit_failed_at, file_event, tasks, props, mapped, is_destroyed, debounce_source_id, ui,
                    slider, writes, inputs, burst, teardowns, returned >>

\* SliderMonitorMixin._start_value_monitor
StartValueMonitor ==
    /\ pc = PcIdle
    /\ props.cls = "SliderRow"
    /\ "value" \notin started
    /\ started' = started \cup {"value"}
    /\ IF ~props.value_command
       THEN UNCHANGED << slots, inv, sources, nextSource, idleq, pc, fmon >>
       ELSE StartPollLoop("value", TRUE)
    /\ UNCHANGED << outerVars, tasks, props, mapped, is_destroyed, debounce_source_id, ui,
                    slider, writes, inputs, burst, teardowns, returned >>

\* ------------------------------------------------------------------------
\* File monitor events and idle callbacks
\* ------------------------------------------------------------------------
FileMonitorEvents == {"CHANGED", "CHANGES_DONE_HINT", "CREATED", "DELETED"}

\* StateMonitorMixin._on_file_changed; val is what load_setting returns.
\* load_setting raises UnicodeDecodeError on a file that is not UTF-8; the
\* handler does not catch it and queues nothing then.
OnFileChanged(event_type) ==
    /\ pc = PcIdle
    /\ fmon = "active"
    /\ file_event' = [type |-> event_type, seq |-> ~file_event.seq]
    /\ IF mapped /\ event_type \in {"CHANGES_DONE_HINT", "CREATED"}
       THEN /\ Len(idleq) < MaxIdle
            /\ SettingsCall("load_setting", "ui")
            /\ \/ \E val \in BOOLEAN :
                    idleq' = Append(idleq,
                                 IdleCb("apply_state_update", "", val, <<>>))
               \/ UNCHANGED idleq
       ELSE UNCHANGED << idleq, settings_call >>
    /\ UNCHANGED << storeVars, aged, submit_failed_at, tasks, props, mapped, is_destroyed, slots, debounce_source_id,
                    inv, sources, nextSource, pc, started, fmon, ui, slider,
                    writes, inputs, burst, teardowns, returned >>

\* ------------------------------------------------------------------------
\* Thread pool tasks: LabelRow, SelectionRow, GridCard; ButtonRow's poll
\* ------------------------------------------------------------------------
shellVars == << inv, pc, fmon >>

sliderVars == << debounce_source_id, slider, writes, inputs, burst >>

lifeVars == << props, is_destroyed, teardowns, returned >>

\* A pool task; `applied` records that the result it posted was applied to
\* the widget.
PoolTask(kind) ==
    [kind |-> kind, step |-> "queued", post |-> FALSE, text |-> <<>>,
     applied |-> FALSE]

\* _submit_task_safe on task list T: the submit raises RuntimeError (the
\* list is unchanged) or the task is queued.
SubmitTaskSafe(T, kind) ==
    {T} \cup (IF Len(T) < MaxTasks THEN {Append(T, PoolTask(kind))} ELSE {})

Done(t) == tasks' = [tasks EXCEPT ![t] = [PoolTask(@.kind) EXCEPT !.step = "done"]]

\* GLib.idle_add(cb, text) called by pool task t.
Post(cb, t, text) ==
    /\ Len(idleq) < MaxIdle
    /\ idleq' = Append(idleq, [IdleCb(cb, "", FALSE, text) EXCEPT !.task = t])

\* _trigger_update that leaves the running flag set when the submit fails.
TriggerUpdate_StuckOnFailure(S1) ==
    IF S1["value"].is_running \/ is_destroyed
    THEN /\ slots' = S1
         /\ UNCHANGED << tasks, submit_failed_at >>
    ELSE \E T2 \in SubmitTaskSafe(tasks, "label") :
            /\ tasks' = T2
            /\ slots' = [S1 EXCEPT !["value"].is_running = TRUE]
            /\ submit_failed_at' =
                   IF T2 = tasks /\ submit_failed_at = NoFailure
                   THEN Len(tasks) ELSE submit_failed_at

\* LabelRow._trigger_update; S1 is slots as the caller left it.  T2 = tasks
\* is _submit_task_safe returning False.
TriggerUpdate(S1) ==
    IF S1["value"].is_running \/ is_destroyed
    THEN /\ slots' = S1
         /\ UNCHANGED << tasks, submit_failed_at >>
    ELSE \E T2 \in SubmitTaskSafe(tasks, "label") :
            /\ tasks' = T2
            /\ slots' = [S1 EXCEPT !["value"].is_running = (T2 # tasks)]
            /\ submit_failed_at' =
                   IF T2 = tasks /\ submit_failed_at = NoFailure
                   THEN Len(tasks) ELSE submit_failed_at

\* The tail of LabelRow.__init__: the first update, then the periodic timer
\* (the two touch different fields of the value slot).
StartLabelRow ==
    /\ pc = PcIdle
    /\ props.cls = "LabelRow"
    /\ "label" \notin started
    /\ started' = started \cup {"label"}
    /\ IF props.interval /\ ~is_destroyed
       THEN /\ TriggerUpdate([slots EXCEPT !["value"].source_id = nextSource])
            /\ sources' = sources \cup {Source(nextSource, "label", "value", 0)}
            /\ nextSource' = nextSource + 1
       ELSE /\ TriggerUpdate(slots)
            /\ UNCHANGED << sources, nextSource >>
    /\ UNCHANGED << storeVars, aged, settings_call, file_event, shellVars, sliderVars, lifeVars, mapped, idleq,
                    ui >>

\* LabelRow._on_timeout
LabelOnTimeout ==
    /\ pc = PcIdle
    /\ \E src \in sources : src.kind = "label"
    /\ IF ~mapped
       THEN UNCHANGED << slots, tasks, sources, submit_failed_at >>
       ELSE IF is_destroyed
       THEN /\ sources' = {x \in sources : x.kind # "label"}
            /\ UNCHANGED << slots, tasks, submit_failed_at >>
       ELSE /\ TriggerUpdate(slots)
            /\ UNCHANGED sources
    /\ UNCHANGED << storeVars, aged, settings_call, file_event, shellVars, sliderVars, lifeVars, mapped, idleq,
                    ui, nextSource, started >>

\* LabelRow._load_value_async on a pool thread, in three steps: the
\* destroyed check and the read; the finally block; the idle_add.
LoadValueAsync(t) ==
    /\ t \in DOMAIN tasks
    /\ tasks[t].kind = "label"
    /\ CASE tasks[t].step = "queued" ->
              /\ \E text \in LabelTexts :
                   tasks' = [tasks EXCEPT ![t] =
                       [@ EXCEPT !.step = "finally", !.post = ~is_destroyed,
                                 !.text = IF is_destroyed THEN <<>> ELSE text]]
              /\ UNCHANGED << slots, idleq >>
         [] tasks[t].step = "finally" ->
              /\ slots' = [slots EXCEPT !["value"].is_running = FALSE]
              /\ IF tasks[t].post
                 THEN tasks' = [tasks EXCEPT ![t].step = "post"]
                 ELSE Done(t)
              /\ UNCHANGED idleq
         [] tasks[t].step = "post" ->
              /\ Post("update_label", t, tasks[t].text)
              /\ Done(t)
              /\ UNCHANGED slots
         [] OTHER -> FALSE
    /\ UNCHANGED << outerVars, shellVars, sliderVars, lifeVars, mapped, ui,
                    sources, nextSource, started >>

\* LabelRow._update_label for the result posted by task t
UpdateLabel(t, text) ==
    IF is_destroyed
    THEN UNCHANGED << ui, tasks >>
    ELSE /\ ui' = [ui EXCEPT !.label = text]
         /\ tasks' = [tasks EXCEPT ![t].applied = TRUE]

\* SelectionRow._start_selection_monitor
StartSelectionMonitor ==
    /\ pc = PcIdle
    /\ props.cls = "SelectionRow"
    /\ props.value_command \/ props.key
    /\ "selection" \notin started
    /\ started' = started \cup {"selection"}
    /\ IF is_destroyed
       THEN UNCHANGED << slots, sources, nextSource >>
       ELSE /\ slots' = [slots EXCEPT !["value"].source_id = nextSource]
            /\ sources' = sources \cup {Source(nextSource, "selection", "value", 0)}
            /\ nextSource' = nextSource + 1
    /\ \* SelectionRow.__init__ reads the key before it starts the monitor
       IF props.key THEN SettingsCall("load_setting", "ui")
       ELSE UNCHANGED settings_call
    /\ UNCHANGED << storeVars, aged, submit_failed_at, file_event, shellVars, sliderVars, lifeVars, mapped, idleq,
                    ui, tasks >>

\* SelectionRow._on_map
OnMap ==
    \E T1 \in SubmitTaskSafe(tasks, "selection") :
        IF props.options_command
        THEN tasks' \in SubmitTaskSafe(T1, "options")
        ELSE tasks' = T1

\* SelectionRow._check_selection_tick
CheckSelectionTick ==
    /\ pc = PcIdle
    /\ \E src \in sources : src.kind = "selection"
    /\ IF ~mapped
       THEN UNCHANGED << tasks, sources >>
       ELSE IF is_destroyed
       THEN /\ sources' = {x \in sources : x.kind # "selection"}
            /\ UNCHANGED tasks
       ELSE /\ tasks' \in SubmitTaskSafe(tasks, "selection")
            /\ UNCHANGED sources
    /\ UNCHANGED << outerVars, shellVars, sliderVars, lifeVars, mapped, idleq,
                    ui, slots, nextSource, started >>

\* SelectionRow._fetch_selection_async on a pool thread: an empty value is
\* dropped, any other is handed to _update_selection_ui.
FetchSelectionAsync(t) ==
    /\ t \in DOMAIN tasks
    /\ tasks[t].kind = "selection"
    /\ tasks[t].step = "queued"
    /\ Done(t)
    /\ \E value \in SelectionValues \cup {<<>>} :
         IF value # <<>> THEN Post("update_selection", t, value)
         ELSE UNCHANGED idleq
    /\ IF props.key THEN SettingsCall("load_setting", "pool")
       ELSE UNCHANGED settings_call
    /\ UNCHANGED << storeVars, aged, submit_failed_at, file_event, shellVars, sliderVars, lifeVars, mapped, ui,
                    slots, sources, nextSource, started >>

\* SelectionRow._fetch_options_async on a pool thread: a failed command or
\* an empty list is dropped.
FetchOptionsAsync(t) ==
    /\ t \in DOMAIN tasks
    /\ tasks[t].kind = "options"
    /\ tasks[t].step = "queued"
    /\ Done(t)
    /\ \E lines \in OptionLists \cup {<<>>} :
         IF lines # <<>> THEN Post("update_options", t, lines)
         ELSE UNCHANGED idleq
    /\ UNCHANGED << outerVars, shellVars, sliderVars, lifeVars, mapped, ui,
                    slots, sources, nextSource, started >>

InList(value, options_list) ==
    \E k \in 1..Len(options_list) : options_list[k] = value[1]

\* list.index, zero-based
IndexOf(value, options_list) ==
    (CHOOSE k \in 1..Len(options_list) :
        /\ options_list[k] = value[1]
        /\ \A j \in 1..(k - 1) : options_list[j] # value[1]) - 1

\* SelectionRow._update_selection_ui
UpdateSelectionUi(value) ==
    IF is_destroyed
    THEN UNCHANGED << ui, tasks >>
    ELSE IF ~InList(value, ui.options)
    THEN /\ UNCHANGED ui
         /\ IF props.options_command
            THEN tasks' \in SubmitTaskSafe(tasks, "options")
            ELSE UNCHANGED tasks
    ELSE /\ ui' = [ui EXCEPT !.selected = IndexOf(value, ui.options)]
         /\ UNCHANGED tasks

\* SelectionRow._update_options_ui: set_model puts the selection back on
\* the first item.
UpdateOptionsUi(new_options) ==
    IF is_destroyed \/ new_options = ui.options
    THEN UNCHANGED << ui, tasks >>
    ELSE /\ ui' = [ui EXCEPT !.options = new_options, !.selected = 0]
         /\ tasks' \in SubmitTaskSafe(tasks, "selection")

\* GridCard._check_badge_tick, apart from the timer's own removal
CheckBadgeTick ==
    IF ~mapped \/ is_destroyed
    THEN UNCHANGED tasks
    ELSE tasks' \in SubmitTaskSafe(tasks, "badge")

\* GridCard._start_badge_monitor
StartBadgeMonitor ==
    /\ pc = PcIdle
    /\ props.cls = "GridCard"
    /\ props.badge_file
    /\ "badge" \notin started
    /\ started' = started \cup {"badge"}
    /\ CheckBadgeTick
    /\ IF is_destroyed
       THEN UNCHANGED << slots, sources, nextSource >>
       ELSE /\ slots' = [slots EXCEPT !["misc"].source_id = nextSource]
            /\ sources' = sources \cup {Source(nextSource, "badge", "misc", 0)}
            /\ nextSource' = nextSource + 1
    /\ UNCHANGED << outerVars, shellVars, sliderVars, lifeVars, mapped, idleq,
                    ui >>

\* The periodic timer of the badge fires.
BadgeTick ==
    /\ pc = PcIdle
    /\ \E src \in sources : src.kind = "badge"
    /\ CheckBadgeTick
    /\ sources' = IF mapped /\ is_destroyed
                  THEN {x \in sources : x.kind # "badge"} ELSE sources
    /\ UNCHANGED << outerVars, shellVars, sliderVars, lifeVars, mapped, idleq,
                    ui, slots, nextSource, started >>

\* GridCard._fetch_badge_async on a pool thread: the count, or None (here
\* the empty text) when the file holds no positive number.
FetchBadgeAsync(t) ==
    /\ t \in DOMAIN tasks
    /\ tasks[t].kind = "badge"
    /\ tasks[t].step = "queued"
    /\ Done(t)
    /\ \E count_text \in BadgeTexts : Post("update_badge", t, count_text)
    /\ UNCHANGED << outerVars, shellVars, sliderVars, lifeVars, mapped, ui,
                    slots, sources, nextSource, started >>

\* GridCard._update_badge_ui
UpdateBadgeUi(text) ==
    ui' = IF is_destroyed THEN ui
          ELSE IF text # <<>>
          THEN [ui EXCEPT !.badge = [visible |-> TRUE, label |-> text]]
          ELSE [ui EXCEPT !.badge.visible = FALSE]

\* ButtonRow._update_dynamic_state: the label mapped from the file's
\* content, or no change when the file is missing.
UpdateDynamicState ==
    \E new_label \in ButtonLabels : ui' = [ui EXCEPT !.button = new_label]

\* ButtonRow._start_dynamic_poll
StartDynamicPoll ==
    /\ pc = PcIdle
    /\ props.cls = "ButtonRow"
    /\ props.button_text_file
    /\ "button" \notin started
    /\ started' = started \cup {"button"}
    /\ UpdateDynamicState
    /\ IF is_destroyed
       THEN UNCHANGED << slots, sources, nextSource >>
       ELSE /\ slots' = [slots EXCEPT !["misc"].source_id = nextSource]
            /\ sources' = sources \cup {Source(nextSource, "button", "misc", 0)}
            /\ nextSource' = nextSource + 1
    /\ UNCHANGED << outerVars, shellVars, sliderVars, lifeVars, mapped, idleq,
                    tasks >>

\* The periodic timer of the button text fires.
DynamicPollTick ==
    /\ pc = PcIdle
    /\ \E src \in sources : src.kind = "button"
    /\ UpdateDynamicState
    /\ UNCHANGED << outerVars, shellVars, sliderVars, lifeVars, mapped, idleq,
                    tasks, slots, sources, nextSource, started >>

\* ToggleRow._on_toggle_changed: the user flips the switch of the
\* constructed row; the state is saved under the key on the calling thread.
OnToggleChanged(state) ==
    /\ pc = PcIdle
    /\ props.cls = "ToggleRow"
    /\ "monitor" \in started
    /\ ~is_destroyed
    /\ state # ui.active
    /\ ui' = [ui EXCEPT !.active = state]
    /\ IF props.key THEN SettingsCall("save_setting", "ui")
       ELSE UNCHANGED settings_call
    /\ UNCHANGED << storeVars, aged, submit_failed_at, file_event, props, mapped, is_destroyed, slots,
                    debounce_source_id, inv, sources, nextSource, idleq, tasks,
                    pc, started, fmon, slider, writes, inputs, burst,
                    teardowns, returned >>

\* SelectionRow._on_selected: the user picks another item of the
\* constructed row; the item is saved under the key on the calling thread.
OnSelected(idx) ==
    /\ pc = PcIdle
    /\ props.cls = "SelectionRow"
    /\ "selection" \in started
    /\ ~is_destroyed
    /\ idx < Len(ui.options)
    /\ idx # ui.selected
    /\ ui' = [ui EXCEPT !.selected = idx]
    /\ IF props.key THEN SettingsCall("save_setting", "ui")
       ELSE UNCHANGED settings_call
    /\ UNCHANGED << storeVars, aged, submit_failed_at, file_event, props, mapped, is_destroyed, slots,
                    debounce_source_id, inv, sources, nextSource, idleq, tasks,
                    pc, started, fmon, slider, writes, inputs, burst,
                    teardowns, returned >>

\* The widget is mapped or unmapped by the toolkit; a SelectionRow handles
\* the map signal with _on_map.
SetMapped ==
    /\ pc = PcIdle
    /\ mapped' = ~mapped
    /\ IF ~mapped /\ props.cls = "SelectionRow" THEN OnMap ELSE UNCHANGED tasks
    /\ UNCHANGED << outerVars, props, is_destroyed, slots, debounce_source_id, inv,
                    sources, nextSource, idleq, pc, started, fmon, ui,
                    slider, writes, inputs, burst, teardowns, returned >>

\* The main loop dispatches the oldest idle callback.
RunIdle ==
    /\ pc = PcIdle
    /\ idleq # <<>>
    /\ idleq' = Tail(idleq)
    /\ LET cb == Head(idleq)
       IN CASE cb.cb = "on_result" ->
                 /\ OnResult(cb.slot, None, NoneOut)
                 /\ UNCHANGED tasks
            [] cb.cb = "apply_state_update" ->
                 /\ ApplyStateUpdate(cb.val)
                 /\ UNCHANGED << slots, tasks >>
            [] cb.cb = "update_label" ->
                 /\ UpdateLabel(cb.task, cb.text)
                 /\ UNCHANGED << slots, slider >>
            [] cb.cb = "update_selection" ->
                 /\ UpdateSelectionUi(cb.text)
                 /\ UNCHANGED << slots, slider >>
            [] cb.cb = "update_options" ->
                 /\ UpdateOptionsUi(cb.text)
                 /\ UNCHANGED << slots, slider >>
            [] cb.cb = "update_badge" ->
                 /\ UpdateBadgeUi(cb.text)
                 /\ UNCHANGED << slots, slider, tasks >>
    /\ UNCHANGED << outerVars, props, mapped, is_destroyed, debounce_source_id,
                    inv, sources, nextSource, pc, started, fmon, writes,
                    inputs, burst, teardowns, returned >>

\* ------------------------------------------------------------------------
\* SliderRow: snapping and the debounced writer
\* ------------------------------------------------------------------------
\* round(val / step): Python rounds halves to the even neighbour.
RoundHalfEven(val, step) ==
    LET q == val \div step
        r == val % step
    IN IF 2 * r < step THEN q
       ELSE IF 2 * r > step THEN q + 1
       ELSE IF q % 2 = 0 THEN q ELSE q + 1

\* snapped = max(min_val, min(round(val / step) * step, max_val))
Snap(val) == Clamp(RoundHalfEven(val, props.step) * props.step)

\* str(cmd).replace("{value}", str(int(value))): the substituted argument
FormatValue(value) == IntOf(value)

\* _execute_debounced_action without the is_destroyed test.
ExecuteDebouncedAction_NoCheck(D, SL, B) ==
    /\ debounce_source_id' = 0
    /\ slider' = [SL EXCEPT !.pending_value = -1]
    /\ burst' = NoBurst
    /\ writes' = IF SL.pending_value = -1 THEN writes
                 ELSE Append(writes,
                             [arg |-> FormatValue(SL.pending_value),
                              burst |-> B])

\* SliderRow._execute_debounced_action, entered with the debounce field D,
\* the slider fields SL and the accepted inputs B not yet written.
ExecuteDebouncedAction(D, SL, B) ==
    IF is_destroyed
    THEN /\ debounce_source_id' = D
         /\ slider' = SL
         /\ burst' = B
         /\ UNCHANGED writes
    ELSE /\ debounce_source_id' = 0
         /\ slider' = [SL EXCEPT !.pending_value = -1]
         /\ burst' = NoBurst
         /\ writes' = IF SL.pending_value = -1 THEN writes
                      ELSE Append(writes,
                                  [arg |-> FormatValue(SL.pending_value),
                                   burst |-> B])

\* The debounce timer fires.
DebounceTimerFires ==
    /\ pc = PcIdle
    /\ \E src \in sources : src.kind = "debounce"
    /\ \E src \in sources :
         /\ src.kind = "debounce"
         /\ sources' = sources \ {src}
    /\ ExecuteDebouncedAction(debounce_source_id, slider, burst)
    /\ UNCHANGED << outerVars, tasks, props, mapped, is_destroyed, slots, inv, nextSource,
                    idleq, pc, started, fmon, ui, inputs, teardowns,
                    returned >>

\* _on_value_changed that arms the new timer and leaves the old one armed.
DebounceReschedule_KeepOld(old_id) ==
    sources \cup {Source(nextSource, "debounce", "", 0)}

\* The tail of _on_value_changed: a new debounce timer is armed and stored,
\* then the timer with the old id is removed.
DebounceReschedule(old_id) ==
    SafeSourceRemove(sources \cup {Source(nextSource, "debounce", "", 0)},
                     old_id)

InputBound == IF props.value_command THEN MaxPolledInputs ELSE MaxInputs

\* _on_value_changed without the comparison with _last_snapped.
OnValueChanged_NoDuplicateCheck(val) ==
    /\ pc = PcIdle
    /\ props.cls = "SliderRow"
    /\ inputs < InputBound
    /\ val >= props.min
    /\ val # ui.value
    /\ inputs' = inputs + 1
    /\ LET snapped == Snap(val)
           SL == [slider EXCEPT !.last_snapped = snapped,
                                !.pending_value = snapped]
           B == [n |-> burst.n + 1, last |-> snapped]
       IN IF FALSE
          THEN /\ ui' = [ui EXCEPT !.value = val]
               /\ UNCHANGED << debounce_source_id, slider, burst, writes,
                               sources, nextSource >>
          ELSE /\ ui' = [ui EXCEPT !.value = snapped]
               /\ IF ~props.debounce
                  THEN /\ ExecuteDebouncedAction(debounce_source_id, SL, B)
                       /\ UNCHANGED << sources, nextSource >>
                  ELSE IF is_destroyed
                  THEN /\ slider' = SL
                       /\ burst' = B
                       /\ UNCHANGED << debounce_source_id, writes, sources,
                                       nextSource >>
                  ELSE /\ slider' = SL
                       /\ burst' = B
                       /\ debounce_source_id' = nextSource
                       /\ sources' = DebounceReschedule(debounce_source_id)
                       /\ nextSource' = nextSource + 1
                       /\ UNCHANGED writes
    /\ UNCHANGED << outerVars, tasks, props, mapped, is_destroyed, slots, inv, idleq, pc,
                    started, fmon, teardowns, returned >>

\* _on_value_changed that arms the debounce timer whatever debounce_enabled
\* says.
OnValueChanged_AlwaysDebounce(val) ==
    /\ pc = PcIdle
    /\ props.cls = "SliderRow"
    /\ inputs < InputBound
    /\ val >= props.min
    /\ val # ui.value
    /\ inputs' = inputs + 1
    /\ LET snapped == Snap(val)
           SL == [slider EXCEPT !.last_snapped = snapped,
                                !.pending_value = snapped]
           B == [n |-> burst.n + 1, last |-> snapped]
       IN IF slider.last_snapped # -1 /\ snapped = slider.last_snapped
          THEN /\ ui' = [ui EXCEPT !.value = val]
               /\ UNCHANGED << debounce_source_id, slider, burst, writes,
                               sources, nextSource >>
          ELSE /\ ui' = [ui EXCEPT !.value = snapped]
               /\ IF FALSE
                  THEN /\ ExecuteDebouncedAction(debounce_source_id, SL, B)
                       /\ UNCHANGED << sources, nextSource >>
                  ELSE IF is_destroyed
                  THEN /\ slider' = SL
                       /\ burst' = B
                       /\ UNCHANGED << debounce_source_id, writes, sources,
                                       nextSource >>
                  ELSE /\ slider' = SL
                       /\ burst' = B
                       /\ debounce_source_id' = nextSource
                       /\ sources' = DebounceReschedule(debounce_source_id)
                       /\ nextSource' = nextSource + 1
                       /\ UNCHANGED writes
    /\ UNCHANGED << outerVars, tasks, props, mapped, is_destroyed, slots, inv, idleq, pc,
                    started, fmon, teardowns, returned >>

\* SliderRow._on_value_changed after the user moved the handle to val.
OnValueChanged(val) ==
    /\ pc = PcIdle
    /\ props.cls = "SliderRow"
    /\ inputs < InputBound
    /\ val >= props.min
    /\ val # ui.value
    /\ inputs' = inputs + 1
    /\ LET snapped == Snap(val)
           SL == [slider EXCEPT !.last_snapped = snapped,
                                !.pending_value = snapped]
           B == [n |-> burst.n + 1, last |-> snapped]
       IN IF slider.last_snapped # -1 /\ snapped = slider.last_snapped
          THEN /\ ui' = [ui EXCEPT !.value = val]
               /\ UNCHANGED << debounce_source_id, slider, burst, writes,
                               sources, nextSource >>
          ELSE /\ ui' = [ui EXCEPT !.value = snapped]
               /\ IF ~props.debounce
                  THEN /\ ExecuteDebouncedAction(debounce_source_id, SL, B)
                       /\ UNCHANGED << sources, nextSource >>
                  ELSE IF is_destroyed
                  THEN /\ slider' = SL
                       /\ burst' = B
                       /\ UNCHANGED << debounce_source_id, writes, sources,
                                       nextSource >>
                  ELSE /\ slider' = SL
                       /\ burst' = B
                       /\ debounce_source_id' = nextSource
                       /\ sources' = DebounceReschedule(debounce_source_id)
                       /\ nextSource' = nextSource + 1
                       /\ UNCHANGED writes
    /\ UNCHANGED << outerVars, tasks, props, mapped, is_destroyed, slots, inv, idleq, pc,
                    started, fmon, teardowns, returned >>

\* ------------------------------------------------------------------------
\* Specification
\* ------------------------------------------------------------------------
Next ==
    \/ StartIconUpdateLoop
    \/ StartStateMonitor
    \/ StartValueMonitor
    \/ PollCommandStore
    \/ \E slot \in SlotNames : PollTick(slot)
    \/ \E i \in 1..MaxInv : CommunicateFinish(i)
    \/ \E i \in 1..MaxInv : OnTimeout(i)
    \/ \E e \in FileMonitorEvents : OnFileChanged(e)
    \/ RunIdle
    \/ \E val \in 0..SliderMax : OnValueChanged(val)
    \/ DebounceTimerFires
    \/ SetMapped
    \/ Teardown
    \/ StartLabelRow
    \/ LabelOnTimeout
    \/ \E t \in 1..MaxTasks : LoadValueAsync(t)
    \/ StartSelectionMonitor
    \/ CheckSelectionTick
    \/ \E t \in 1..MaxTasks : FetchSelectionAsync(t)
    \/ \E t \in 1..MaxTasks : FetchOptionsAsync(t)
    \/ StartBadgeMonitor
    \/ BadgeTick
    \/ \E t \in 1..MaxTasks : FetchBadgeAsync(t)
    \/ StartDynamicPoll
    \/ DynamicPollTick
    \/ \E state \in BOOLEAN : OnToggleChanged(state)
    \/ \E idx \in 0..(Len(ui.options) - 1) : OnSelected(idx)

Spec == Init /\ [][Next]_vars

\* ------------------------------------------------------------------------
\* Command decomposition (SpecArgv)
\* ------------------------------------------------------------------------
\* _SHELL_METACHAR: the characters that mandate /bin/sh -c.  The backquote
\* character is written "backquote".
SHELL_METACHAR ==
    { "|", "&", ";", "<", ">", "(", ")", "$", "backquote", "\\", "*", "?",
      "#", "~", "!", "[", "]", "{", "}", "=", "\n" }

\* The characters command strings are built from.
CmdAlphabet == { "a", " ", "'", "\"", "\\", "|" }

Commands ==
    UNION {[1..n -> CmdAlphabet] : n \in 0..MaxCmdLen}

Quotes == { "'", "\"" }

\* shlex.split(command): the POSIX-mode tokenizer with whitespace_split and
\* no comment characters.  state is "ws" (between tokens), "a" (in a word),
\* a quote character (inside quotes) or "esc" (after a backslash, with
\* escapedstate the state to return to).  The result is [ok, argv]; ok is
\* FALSE when the tokenizer raises ValueError (no closing quotation, no
\* escaped character).
RECURSIVE Lex(_, _, _, _, _)
Lex(rest, state, escapedstate, token, tokens) ==
    IF rest = <<>>
    THEN CASE state = "ws" -> [ok |-> TRUE, argv |-> tokens]
           [] state = "a" -> [ok |-> TRUE, argv |-> Append(tokens, token)]
           [] OTHER -> [ok |-> FALSE, argv |-> <<>>]
    ELSE LET c == Head(rest)
             r == Tail(rest)
         IN CASE state = "ws" ->
                   IF c \in Whitespace THEN Lex(r, "ws", "ws", <<>>, tokens)
                   ELSE IF c = "\\" THEN Lex(r, "esc", "a", <<>>, tokens)
                   ELSE IF c \in Quotes THEN Lex(r, c, "ws", <<>>, tokens)
                   ELSE Lex(r, "a", "ws", <<c>>, tokens)
              [] state \in Quotes ->
                   IF c = state THEN Lex(r, "a", "ws", token, tokens)
                   ELSE IF c = "\\" /\ state = "\""
                   THEN Lex(r, "esc", state, token, tokens)
                   ELSE Lex(r, state, "ws", Append(token, c), tokens)
              [] state = "esc" ->
                   IF escapedstate \in Quotes /\ c # "\\" /\ c # escapedstate
                   THEN Lex(r, escapedstate, "ws",
                            Append(Append(token, "\\"), c), tokens)
                   ELSE Lex(r, escapedstate, "ws", Append(token, c), tokens)
              [] OTHER ->
                   IF c \in Whitespace
                   THEN Lex(r, "ws", "ws", <<>>, Append(tokens, token))
                   ELSE IF c \in Quotes THEN Lex(r, c, "ws", token, tokens)
                   ELSE IF c = "\\" THEN Lex(r, "esc", "a", token, tokens)
                   ELSE Lex(r, "a", "ws", Append(token, c), tokens)

ShlexSplit(cmd) == Lex(cmd, "ws", "ws", <<>>, <<>>)

HasMetachar(cmd) == \E k \in 1..Len(cmd) : cmd[k] \in SHELL_METACHAR

\* The argv of an uncaught ValueError (no process is spawned).
Raised == << <<"ValueError">> >>

\* _parse_simple_argv that lets the ValueError of shlex.split escape.
ParseSimpleArgv_NoExcept(cmd) ==
    IF HasMetachar(cmd) THEN [is_none |-> TRUE, argv |-> <<>>]
    ELSE IF ~ShlexSplit(cmd).ok THEN [is_none |-> FALSE, argv |-> Raised]
    ELSE [is_none |-> ShlexSplit(cmd).argv = <<>>,
          argv |-> ShlexSplit(cmd).argv]

\* _parse_simple_argv: None, or the argv list of a plain command.
ParseSimpleArgv(cmd) ==
    IF HasMetachar(cmd) THEN [is_none |-> TRUE, argv |-> <<>>]
    ELSE IF ~ShlexSplit(cmd).ok THEN [is_none |-> TRUE, argv |-> <<>>]
    ELSE [is_none |-> ShlexSplit(cmd).argv = <<>>,
          argv |-> ShlexSplit(cmd).argv]

ShellArgv(cmd) == << <<"/bin/sh">>, <<"-c">>, cmd >>

\* The argv _run_shell_async hands to launcher.spawnv.
SpawnArgv(cmd) ==
    IF ParseSimpleArgv(cmd).is_none
    THEN ShellArgv(cmd) ELSE ParseSimpleArgv(cmd).argv

\* _run_shell_async(command, ...) up to spawnv
RunShellAsyncArgv ==
    /\ argv = <<>>
    /\ argv' = SpawnArgv(command)
    /\ UNCHANGED << engineVars, command, file, op, settings_call,
                    submit_failed_at, file_event, aged, libVars >>

ArgvInit ==
    /\ EngineInit
    /\ props.cls = "EntryRow"
    /\ command \in Commands
    /\ argv = <<>>
    /\ file = AbsentFile
    /\ op = NoOp
    /\ settings_call = NoCall
    /\ submit_failed_at = NoFailure
    /\ file_event = NoEvent
    /\ aged = {}
    /\ LibInit

ArgvNext == RunShellAsyncArgv

SpecArgv == ArgvInit /\ [][ArgvNext]_vars

\* ------------------------------------------------------------------------
\* Settings store: utility.save_setting and utility.load_setting on the
\* file of one key below the settings directory.
\* ------------------------------------------------------------------------

\* Keys as sequences of path components: "" is <<>>, "/a" starts with the
\* empty component, "NUL" stands for a component holding a null byte.
SettingsKeys ==
    { <<>>, <<"", "a">>, <<"..", "a">>, <<"NUL">>, <<"a">>, <<"a", "..">>,
      <<"a", "..", "..">>, <<"a", "..", "a">> }

True == <<"T","r","u","e">>

False == <<"F","a","l","s","e">>

\* Texts a settings file may hold.
FileTexts ==
    { <<>>, True, False, <<"1">>, <<"0">>, <<"2">>, <<"O","n","\n">>, <<"x">> }

\* Defaults the rows pass, and values they save.
Defaults ==
    { BoolVal(TRUE), BoolVal(FALSE), IntVal(7), FloatVal(Units(7)),
      StrVal(<<"x">>), NoneVal }

SavedValues == { BoolVal(TRUE), BoolVal(FALSE) } \cup { StrVal(x) : x \in FileTexts }

\* (resolved_base / key).resolve() relative to resolved_base: the stack of
\* components left, <<"..">> once the path has left the base directory.
RECURSIVE Resolve(_, _)
Resolve(stack, rest) ==
    IF rest = <<>> THEN stack
    ELSE IF rest[1] = ".."
         THEN IF stack = <<>> THEN <<"..">>
              ELSE Resolve(SubSeq(stack, 1, Len(stack) - 1), Tail(rest))
         ELSE Resolve(Append(stack, rest[1]), Tail(rest))

\* _validate_settings_path(key): valid is FALSE for the None result.
ValidateSettingsPath(key) ==
    IF key = <<>> THEN [valid |-> FALSE, path |-> <<>>]
    ELSE IF \E i \in 1..Len(key) : key[i] = "NUL"
    THEN [valid |-> FALSE, path |-> <<>>]
    ELSE IF key[1] = "" \/ key[1] = ".."
    THEN [valid |-> FALSE, path |-> <<>>]
    ELSE IF Resolve(<<>>, key) = <<"..">>
    THEN [valid |-> FALSE, path |-> <<>>]
    ELSE [valid |-> TRUE, path |-> Resolve(<<>>, key)]

\* str(value) of save_setting, "1"/"0" for a bool under as_int.
Serialize(value, as_int) ==
    IF as_int /\ value.t = "bool"
    THEN IF value.b THEN <<"1">> ELSE <<"0">>
    ELSE IF value.t = "bool"
    THEN IF value.b THEN True ELSE False
    ELSE value.s

\* int(text): ok is FALSE for ValueError.
ParseInt(text) ==
    LET body == Strip(text)
        digits == IF body # <<>> /\ body[1] \in {"+", "-"}
                  THEN Tail(body) ELSE body
    IN IF digits # <<>> /\ \A i \in 1..Len(digits) : IsDigit(digits[i])
       THEN [ok |-> TRUE,
             n |-> IF body[1] = "-" THEN 0 - DigitsValue(digits)
                   ELSE DigitsValue(digits)]
       ELSE [ok |-> FALSE, n |-> 0]

\* _parse_bool that compares the text as stored, without lower().
ParseBool_CaseSensitive(value, is_inversed) ==
    LET lowered == Strip(value)
        result ==
            IF lowered \in { <<"t","r","u","e">>, <<"y","e","s">>,
                             <<"o","n">>, <<"1">> } THEN TRUE
            ELSE IF lowered \in { <<"f","a","l","s","e">>, <<"n","o">>,
                                  <<"o","f","f">>, <<"0">>, <<>> } THEN FALSE
            ELSE IF ParseInt(value).ok THEN ParseInt(value).n # 0
            ELSE FALSE
    IN result # is_inversed

\* _parse_bool(value, is_inversed)
ParseBool(value, is_inversed) ==
    LET lowered == Strip(Lower(value))
        result ==
            IF lowered \in { <<"t","r","u","e">>, <<"y","e","s">>,
                             <<"o","n">>, <<"1">> } THEN TRUE
            ELSE IF lowered \in { <<"f","a","l","s","e">>, <<"n","o">>,
                                  <<"o","f","f">>, <<"0">>, <<>> } THEN FALSE
            ELSE IF ParseInt(value).ok THEN ParseInt(value).n # 0
            ELSE FALSE
    IN result # is_inversed

\* What load_setting(key, default, is_inversed=...) returns, or that it
\* raised.  The path <<>> is the settings directory itself (read_text
\* fails with an OSError); <<"a">> is the modelled file.
LoadSettingResult(key, default, is_inversed) ==
    LET target == ValidateSettingsPath(key)
        raw_value == Strip(file.text)
    IN IF ~target.valid THEN default
       ELSE IF target.path # <<"a">> THEN default
       ELSE IF file.kind \in {"absent", "unreadable"} THEN default
       ELSE IF file.kind = "undecodable" THEN UnicodeDecodeError
       ELSE CASE default.t = "bool" ->
                   BoolVal(ParseBool(raw_value, is_inversed))
              [] default.t = "int" ->
                   IF ParseInt(raw_value).ok
                   THEN IntVal(ParseInt(raw_value).n) ELSE default
              [] default.t = "float" ->
                   IF ParseFloat(raw_value) # -1
                   THEN FloatVal(ParseFloat(raw_value)) ELSE default
              [] OTHER -> StrVal(raw_value)

\* load_setting(key, default, is_inversed=...)
LoadSetting ==
    \E key \in SettingsKeys, default \in Defaults, is_inversed \in BOOLEAN :
        /\ op' = [kind |-> "load", key |-> key, value |-> default,
                  flag |-> is_inversed,
                  result |-> LoadSettingResult(key, default, is_inversed),
                  seen |-> IF ValidateSettingsPath(key).valid
                              /\ ValidateSettingsPath(key).path = <<"a">>
                           THEN file ELSE AbsentFile]
        /\ UNCHANGED << engineVars, command, argv, file, settings_call,
                    submit_failed_at, file_event, aged, libVars >>

\* The points at which the file operations of save_setting may fail.
SaveFailures == {"none", "before_rename", "after_rename"}

\* save_setting(key, value, as_int=...): the content reaches the file with
\* the rename; an OSError before or after it gives the result False.
SaveSetting ==
    \E key \in SettingsKeys, value \in SavedValues, as_int \in BOOLEAN,
       failure \in SaveFailures :
        LET target == ValidateSettingsPath(key)
            renamed == /\ target.valid
                       /\ target.path = <<"a">>
                       /\ failure # "before_rename"
            result == renamed /\ failure = "none"
        IN /\ file' = IF renamed
                      THEN [kind |-> "text",
                            text |-> Serialize(value, as_int),
                            saved |-> result /\ value.t = "bool",
                            saved_b |-> result /\ value.b,
                            saved_as_int |-> result /\ value.t = "bool" /\ as_int]
                      ELSE file
           /\ op' = [kind |-> "save", key |-> key, value |-> value,
                     flag |-> as_int, result |-> BoolVal(result),
                     seen |-> AbsentFile]
           /\ UNCHANGED << engineVars, command, argv, settings_call,
                    submit_failed_at, file_event, aged, libVars >>

\* Another program removes the file, takes away the read permission or
\* leaves bytes in it that are not UTF-8.
FileChangedOutside ==
    \E kind \in {"absent", "unreadable", "undecodable"} :
        /\ file.kind # kind
        /\ file' = [AbsentFile EXCEPT !.kind = kind]
        /\ UNCHANGED << engineVars, command, argv, op, settings_call,
                    submit_failed_at, file_event, aged, libVars >>

SettingsInit ==
    /\ EngineInit
    /\ props.cls = "EntryRow"
    /\ command = <<>>
    /\ argv = <<>>
    /\ file = AbsentFile
    /\ op = NoOp
    /\ settings_call = NoCall
    /\ submit_failed_at = NoFailure
    /\ file_event = NoEvent
    /\ aged = {}
    /\ LibInit

SettingsNext ==
    \/ SaveSetting
    \/ LoadSetting
    \/ FileChangedOutside

SpecSettings == SettingsInit /\ [][SettingsNext]_vars

\* ------------------------------------------------------------------------
\* Slow commands: a polled command that always succeeds, takes longer than
\* the poll interval and less than its timeout, on a row that is mapped once
\* and never torn down.  An invocation that was not cancelled completes only
\* after a timer tick has fired since its launch; a cancelled one completes
\* as soon as the main loop runs its callback.
\* ------------------------------------------------------------------------
SlowProps ==
    { [NoProps EXCEPT !.cls = "EntryRow", !.icon = TRUE],
      [NoProps EXCEPT !.cls = "ToggleRow", !.state_command = TRUE] }

\* spawnv does not fail for this command.
Spawned == pc'.at = "store" => pc'.handle # None

slowFrame ==
    << storeVars, settings_call, submit_failed_at, file_event, tasks, props,
       mapped, is_destroyed, debounce_source_id, started, ui, slider, writes,
       inputs, burst, teardowns, returned >>

SlowStart ==
    /\ StartIconUpdateLoop \/ StartStateMonitor
    /\ Spawned

SlowMap == ~mapped /\ SetMapped

\* The poll interval elapses: the tick runs, and every invocation that is in
\* flight before and after it has now run for longer than the interval.
SlowTick(slot) ==
    /\ PollTickStep(slot)
    /\ Spawned
    /\ aged' = {i \in DOMAIN inv : inv'[i].calls = 0 /\ ~inv'[i].cancelled}
    /\ UNCHANGED slowFrame

\* The command ends: it has run for longer than the interval, exits with
\* status 0 and prints its output.
SlowDeliver ==
    \E i \in DOMAIN inv :
        /\ ~inv[i].cancelled
        /\ i \in aged
        /\ CommunicateFinish(i)
        /\ inv'[i].exit_ok
        /\ ~inv'[i].blank

\* The completion of a cancelled invocation is dispatched.
SlowDiscard ==
    \E i \in DOMAIN inv :
        /\ inv[i].cancelled
        /\ CommunicateFinish(i)

\* GLib source ids and cancellables are opaque: the ids in use are renamed
\* to 1..n, in order.
Rank(id) ==
    IF id = 0 THEN 0 ELSE Cardinality({x \in sources : x.id <= id})

\* The oldest invocation, cancelled and completed, is referenced by nothing
\* any more: its closure is dropped and the remaining handles and source
\* ids are renamed.
Recycle ==
    /\ pc = PcIdle
    /\ inv # <<>>
    /\ inv[1].calls > 0
    /\ inv[1].cancelled
    /\ inv' = [i \in 1..(Len(inv) - 1) |->
                 [inv[i + 1] EXCEPT !.timeout_source_id = Rank(@)]]
    /\ slots' = [s \in SlotNames |->
                   [slots[s] EXCEPT !.cancellable = IF @ > 0 THEN @ - 1 ELSE @,
                                    !.source_id = Rank(@)]]
    /\ sources' = {[src EXCEPT !.id = Rank(@),
                               !.inv = IF @ > 0 THEN @ - 1 ELSE @] :
                      src \in sources}
    /\ nextSource' = Cardinality(sources) + 1
    /\ aged' = {i - 1 : i \in aged \ {1}}
    /\ UNCHANGED << slowFrame, idleq, pc, fmon >>

SlowInit ==
    /\ Init
    /\ props \in SlowProps

SlowNext ==
    \/ SlowStart
    \/ SlowMap
    \/ PollCommandStore
    \/ \E slot \in SlotNames : SlowTick(slot)
    \/ SlowDeliver
    \/ SlowDiscard
    \/ Recycle

\* The main loop runs every callback that is due, and no timer is starved.
SlowFairness ==
    /\ WF_vars(SlowStart)
    /\ WF_vars(SlowMap)
    /\ WF_vars(PollCommandStore)
    /\ \A slot \in SlotNames : WF_vars(SlowTick(slot))
    /\ WF_vars(SlowDeliver)
    /\ WF_vars(SlowDiscard)
    /\ WF_vars(Recycle)

SpecSlow == SlowInit /\ [][SlowNext]_vars /\ SlowFairness

\* ------------------------------------------------------------------------
\* Teardown racing with _poll_command: WidgetState is guarded by a lock so
\* that mark_destroyed_and_get_sources may run while _poll_command is
\* between the launch and the storing of the handle.
\* ------------------------------------------------------------------------
TeardownDuringLaunch ==
    /\ pc.at = "store"
    /\ TeardownStep

RaceInit ==
    /\ Init
    /\ props \in SlowProps

RaceNext ==
    \/ StartIconUpdateLoop
    \/ StartStateMonitor
    \/ PollCommandStore
    \/ \E slot \in SlotNames : PollTick(slot)
    \/ \E i \in 1..MaxInv : CommunicateFinish(i)
    \/ \E i \in 1..MaxInv : OnTimeout(i)
    \/ RunIdle
    \/ SetMapped
    \/ Teardown
    \/ TeardownDuringLaunch

SpecRace == RaceInit /\ [][RaceNext]_vars

\* ------------------------------------------------------------------------
\* Teardown of a slider in its two parts: the flag is set and the ids are
\* harvested under the lock, the harvested timers are removed afterwards,
\* and a debounce timer that is due may be dispatched in between.
\* ------------------------------------------------------------------------
\* Ids harvested by the last teardown whose timers are still armed.
Unswept == {src \in sources : \E k \in DOMAIN returned : returned[k] = src.id}

TeardownMark ==
    /\ pc = PcIdle
    /\ teardowns < MaxTeardowns
    /\ Unswept = {}
    /\ teardowns' = teardowns + 1
    /\ MarkDestroyedAndGetSources
    /\ UNCHANGED << outerVars, tasks, props, mapped, sources, nextSource, idleq,
                    pc, started, ui, slider, writes, inputs, burst >>

TeardownSweep ==
    /\ Unswept # {}
    /\ sources' = BatchSourceRemove(sources, returned)
    /\ UNCHANGED << outerVars, tasks, props, mapped, is_destroyed, slots,
                    debounce_source_id, inv, nextSource, idleq, pc, started,
                    fmon, ui, slider, writes, inputs, burst, teardowns,
                    returned >>

SliderInit ==
    /\ Init
    /\ props.cls = "SliderRow"
    /\ ~props.value_command

SliderNext ==
    \/ \E val \in 0..SliderMax : OnValueChanged(val)
    \/ DebounceTimerFires
    \/ TeardownMark
    \/ TeardownSweep

SpecSlider == SliderInit /\ [][SliderNext]_vars

\* ------------------------------------------------------------------------
\* Completion of fetches under the scheduling GLib gives: the tail of _poll_command
\* runs to its end, the main loop dispatches every armed timeout and every
\* idle callback, and a cancelled communicate_utf8_async completes.  These
\* are dispatched between handlers, so each is enabled again and again
\* rather than continuously.  A process that is not cancelled may run
\* forever.
\* ------------------------------------------------------------------------
CancelledFinish(i) ==
    /\ i \in DOMAIN inv
    /\ inv[i].cancelled
    /\ CommunicateFinish(i)

CompletionFairness ==
    /\ WF_vars(PollCommandStore)
    /\ SF_vars(RunIdle)
    /\ \A i \in 1..MaxInv : SF_vars(OnTimeout(i))
    /\ \A i \in 1..MaxInv : SF_vars(CancelledFinish(i))

\* The row whose every fetch is started by a tick: the state monitor polls
\* with immediate=False.
CompletionInit ==
    /\ Init
    /\ props = [NoProps EXCEPT !.cls = "ToggleRow", !.state_command = TRUE]

CompletionNext ==
    \/ StartStateMonitor
    \/ PollCommandStore
    \/ \E slot \in SlotNames : PollTick(slot)
    \/ \E i \in 1..MaxInv : CommunicateFinish(i)
    \/ \E i \in 1..MaxInv : OnTimeout(i)
    \/ RunIdle
    \/ SetMapped
    \/ Teardown
    \/ TeardownDuringLaunch

SpecCompletion == CompletionInit /\ [][CompletionNext]_vars /\ CompletionFairness

\* ------------------------------------------------------------------------
\* The reentrancy guards of ToggleRow, SliderRow and SelectionRow.  Setting
\* a value of a GTK widget emits its change signal synchronously, so the
\* row's own handler runs inside the programmatic update, with the flag as
\* the update has set it.
\* ------------------------------------------------------------------------
GuardProps ==
    { [NoProps EXCEPT !.cls = "ToggleRow", !.key = TRUE],
      [NoProps EXCEPT !.cls = "SliderRow", !.debounce = TRUE, !.min = 1,
                      !.step = 3],
      [NoProps EXCEPT !.cls = "SliderRow", !.step = 3],
      [NoProps EXCEPT !.cls = "SelectionRow", !.key = TRUE,
                      !.options_command = TRUE] }

\* A side effect of a user-action handler, and who made the handler run.
Effect(kind, origin) == [kind |-> kind, origin |-> origin]

guardFrame ==
    << baseStore, histVars, sttVars, searchVars, reloadVars, atomicVars, cacheVars, executorVars, props, mapped, is_destroyed, slots,
       debounce_source_id, inv, sources, nextSource, idleq, tasks, pc,
       started, fmon, writes, inputs, burst, teardowns, returned >>

\* ToggleRow._on_toggle_changed entered with the event in state is_set: the
\* effects it adds.
OnToggleChangedEffects(is_set, origin) ==
    IF is_set THEN {}
    ELSE {Effect("execute_command", origin)}
         \cup (IF props.key THEN {Effect("save_setting", origin)} ELSE {})

\* _apply_state_update that sets the switch without setting the event.
ApplyStateUpdateEmit_NoGuard(new_state, raises) ==
    /\ props.cls = "ToggleRow"
    /\ IF is_destroyed \/ new_state = ui.active
       THEN UNCHANGED << ui, guardVars >>
       ELSE /\ ui' = IF raises THEN ui ELSE [ui EXCEPT !.active = new_state]
            /\ effects' =
                 IF raises THEN effects
                 ELSE effects \cup OnToggleChangedEffects(
                          guards.programmatic_update_event, "programmatic")
            /\ guards' = [guards EXCEPT !.programmatic_update_event = FALSE]
    /\ UNCHANGED << guardFrame, slider >>

\* ToggleRow._apply_state_update with the state-set signal it emits:
\* set_active either raises or sets the switch and runs _on_toggle_changed;
\* the finally clause clears the event.
ApplyStateUpdateEmit(new_state, raises) ==
    /\ props.cls = "ToggleRow"
    /\ IF is_destroyed \/ new_state = ui.active
       THEN UNCHANGED << ui, guardVars >>
       ELSE LET g == [guards EXCEPT !.programmatic_update_event = TRUE]
            IN /\ ui' = IF raises THEN ui
                        ELSE [ui EXCEPT !.active = new_state]
               /\ effects' =
                    IF raises THEN effects
                    ELSE effects \cup OnToggleChangedEffects(
                             g.programmatic_update_event, "programmatic")
               /\ guards' = [g EXCEPT !.programmatic_update_event = FALSE]
    /\ UNCHANGED << guardFrame, slider >>

\* The user flips the switch: state-set runs _on_toggle_changed.
UserToggles(state) ==
    /\ props.cls = "ToggleRow"
    /\ state # ui.active
    /\ ui' = [ui EXCEPT !.active = state]
    /\ effects' = effects \cup
                    OnToggleChangedEffects(guards.programmatic_update_event,
                                           "user")
    /\ UNCHANGED << guardFrame, slider, guards >>

\* SliderRow._on_value_changed entered with _slider_changing = changing
\* after the scale was set to val: the slider fields, the scale value and
\* the effects it leaves.  Its own set_value of the snapped value is made
\* under the flag.
OnValueChangedResult(changing, val, origin, SL, E) ==
    LET snapped == Snap(val)
    IN IF changing \/ (SL.last_snapped # -1 /\ snapped = SL.last_snapped)
       THEN [slider |-> SL, value |-> val, effects |-> E]
       ELSE [slider |-> [last_snapped |-> snapped,
                         pending_value |->
                            IF ~props.debounce /\ ~is_destroyed
                            THEN -1 ELSE snapped],
             value |-> snapped,
             effects |->
                IF is_destroyed THEN E
                ELSE E \cup {Effect(IF props.debounce THEN "debounce"
                                    ELSE "execute_command", origin)}]

\* SliderRow._apply_value_update with the value-changed signal it emits;
\* _last_snapped is assigned after set_value, inside the try block.
ApplyValueUpdateEmit(new_value, raises) ==
    /\ props.cls = "SliderRow"
    /\ IF is_destroyed \/ Abs(ui.value - new_value) < props.step
       THEN UNCHANGED << ui, slider, guardVars >>
       ELSE LET g == [guards EXCEPT !.slider_changing = TRUE]
                safe_val == Clamp(new_value)
                r == OnValueChangedResult(g.slider_changing, safe_val,
                                          "programmatic", slider, effects)
            IN /\ ui' = IF raises THEN ui ELSE [ui EXCEPT !.value = r.value]
               /\ slider' = IF raises THEN slider
                            ELSE [r.slider EXCEPT !.last_snapped = safe_val]
               /\ effects' = IF raises THEN effects ELSE r.effects
               /\ guards' = [g EXCEPT !.slider_changing = FALSE]
    /\ UNCHANGED guardFrame

\* The user drags the handle to val.
UserSlides(val) ==
    /\ props.cls = "SliderRow"
    /\ val >= props.min
    /\ val # ui.value
    /\ LET r == OnValueChangedResult(guards.slider_changing, val, "user",
                                     slider, effects)
       IN /\ ui' = [ui EXCEPT !.value = r.value]
          /\ slider' = r.slider
          /\ effects' = r.effects
    /\ UNCHANGED << guardFrame, guards >>

\* SelectionRow._on_selected entered with _programmatic_update = programmatic
OnSelectedEffects(programmatic, origin) ==
    IF programmatic THEN {}
    ELSE {Effect("execute_command", origin)}
         \cup (IF props.key THEN {Effect("save_setting", origin)} ELSE {})

\* SelectionRow._update_selection_ui with the notify::selected it emits
\* from inside _suppress_change_signal.
UpdateSelectionUiEmit(value, raises) ==
    /\ props.cls = "SelectionRow"
    /\ IF is_destroyed \/ ~InList(value, ui.options)
          \/ ui.selected = IndexOf(value, ui.options)
       THEN UNCHANGED << ui, guardVars >>
       ELSE LET g == [guards EXCEPT !.programmatic_update = TRUE]
            IN /\ ui' = IF raises THEN ui
                        ELSE [ui EXCEPT !.selected = IndexOf(value, ui.options)]
               /\ effects' =
                    IF raises THEN effects
                    ELSE effects \cup OnSelectedEffects(g.programmatic_update,
                                                       "programmatic")
               /\ guards' = [g EXCEPT !.programmatic_update = FALSE]
    /\ UNCHANGED << guardFrame, slider >>

\* SelectionRow._update_options_ui: options_list is replaced, then set_model
\* puts the selection on the first item inside _suppress_change_signal.
UpdateOptionsUiEmit(new_options, raises) ==
    /\ props.cls = "SelectionRow"
    /\ IF is_destroyed \/ new_options = ui.options
       THEN UNCHANGED << ui, guardVars >>
       ELSE LET g == [guards EXCEPT !.programmatic_update = TRUE]
            IN /\ ui' = IF raises THEN [ui EXCEPT !.options = new_options]
                        ELSE [ui EXCEPT !.options = new_options,
                                        !.selected = 0]
               /\ effects' =
                    IF raises \/ ui.selected = 0 THEN effects
                    ELSE effects \cup OnSelectedEffects(g.programmatic_update,
                                                       "programmatic")
               /\ guards' = [g EXCEPT !.programmatic_update = FALSE]
    /\ UNCHANGED << guardFrame, slider >>

\* The user picks item idx.
UserSelects(idx) ==
    /\ props.cls = "SelectionRow"
    /\ idx < Len(ui.options)
    /\ idx # ui.selected
    /\ ui' = [ui EXCEPT !.selected = idx]
    /\ effects' = effects \cup
                    OnSelectedEffects(guards.programmatic_update, "user")
    /\ UNCHANGED << guardFrame, slider, guards >>

GuardInit ==
    /\ Init
    /\ props \in GuardProps

GuardNext ==
    \/ \E new_state \in BOOLEAN, raises \in BOOLEAN :
         ApplyStateUpdateEmit(new_state, raises)
    \/ \E state \in BOOLEAN : UserToggles(state)
    \/ \E new_value \in 0..SliderMax, raises \in BOOLEAN :
         ApplyValueUpdateEmit(new_value, raises)
    \/ \E val \in 0..SliderMax : UserSlides(val)
    \/ \E value \in SelectionValues, raises \in BOOLEAN :
         UpdateSelectionUiEmit(value, raises)
    \/ \E new_options \in OptionLists, raises \in BOOLEAN :
         UpdateOptionsUiEmit(new_options, raises)
    \/ \E idx \in 0..(Len(ui.options) - 1) : UserSelects(idx)
    \/ Teardown

SpecGuard == GuardInit /\ [][GuardNext]_vars

\* ------------------------------------------------------------------------
\* _ExecutorManager: get() and shutdown() called from several threads.
\* The statements under the lock exclude each other; the first test of
\* get() and its return statement read the fields without the lock.
\* ------------------------------------------------------------------------
executorFrame ==
    << baseStore, histVars, sttVars, searchVars, reloadVars, atomicVars, cacheVars, guardVars, engineVars >>

\* A row that nothing acts on while the library code beside it runs.
LibraryInit ==
    /\ Init
    /\ props = [NoProps EXCEPT !.cls = "ToggleRow"]

At(t, pc_) == callers[t].pc = pc_

Goto(t, pc_) == callers' = [callers EXCEPT ![t].pc = pc_]

\* get(): the unlocked test before the lock is taken
GetTest(t) ==
    /\ At(t, "idle")
    /\ IF manager.executor = "None" \/ manager.is_shutdown
       THEN Goto(t, "get_lock")
       ELSE Goto(t, "get_return")
    /\ UNCHANGED << manager, executorFrame >>

\* get(): the lock is taken and the test repeated; _is_shutdown is reset
GetLock(t) ==
    /\ At(t, "get_lock")
    /\ manager.lock = "free"
    /\ IF manager.executor = "None" \/ manager.is_shutdown
       THEN /\ manager' = [manager EXCEPT !.lock = t, !.is_shutdown = FALSE]
            /\ Goto(t, "get_create")
       ELSE /\ Goto(t, "get_return")
            /\ UNCHANGED manager
    /\ UNCHANGED executorFrame

\* get(): the new ThreadPoolExecutor is assigned and the lock released
GetCreate(t) ==
    /\ At(t, "get_create")
    /\ manager' = [manager EXCEPT !.executor = "pool", !.pool_shut = FALSE,
                                  !.lock = "free"]
    /\ Goto(t, "get_return")
    /\ UNCHANGED executorFrame

\* get(): return self._executor, read without the lock
GetReturn(t) ==
    /\ At(t, "get_return")
    /\ callers' = [callers EXCEPT ![t] =
                     [pc |-> "idle",
                      result |-> IF manager.executor = "None" THEN "None"
                                 ELSE IF manager.pool_shut THEN "shut down"
                                 ELSE "live"]]
    /\ UNCHANGED << manager, executorFrame >>

\* shutdown(): the lock is taken and the test made; _is_shutdown is set
ShutdownLock(t) ==
    /\ At(t, "idle")
    /\ manager.lock = "free"
    /\ IF manager.executor # "None" /\ ~manager.is_shutdown
       THEN /\ manager' = [manager EXCEPT !.lock = t, !.is_shutdown = TRUE]
            /\ Goto(t, "shutdown_pool")
       ELSE UNCHANGED << manager, callers >>
    /\ UNCHANGED executorFrame

\* shutdown(): self._executor.shutdown(wait=False, cancel_futures=True)
ShutdownPool(t) ==
    /\ At(t, "shutdown_pool")
    /\ manager' = [manager EXCEPT !.pool_shut = TRUE]
    /\ Goto(t, "shutdown_clear")
    /\ UNCHANGED executorFrame

\* shutdown(): self._executor = None, and the lock is released
ShutdownClear(t) ==
    /\ At(t, "shutdown_clear")
    /\ manager' = [manager EXCEPT !.executor = "None", !.lock = "free"]
    /\ callers' = [callers EXCEPT ![t] = CallerIdle]
    /\ UNCHANGED executorFrame

ExecutorNext ==
    \E t \in Threads :
       \/ GetTest(t)
       \/ GetLock(t)
       \/ GetCreate(t)
       \/ GetReturn(t)
       \/ ShutdownLock(t)
       \/ ShutdownPool(t)
       \/ ShutdownClear(t)

SpecExecutor == LibraryInit /\ [][ExecutorNext]_vars

\* ------------------------------------------------------------------------
\* _ComputeOnceCache.get_or_compute called from several threads.  Each
\* block under self._lock is one step; cond.wait() releases the lock and
\* the woken thread takes it again before it goes on; compute_fn runs
\* outside the lock.  A computation returns a value that tells it from any
\* other computation of the key.
\* ------------------------------------------------------------------------
cacheFrame ==
    << baseStore, histVars, sttVars, searchVars, reloadVars, atomicVars, guardVars, executorVars, engineVars >>

Returns(t, result, value) ==
    [waiters EXCEPT ![t].pc = "idle", ![t].result = result,
                    ![t].value = value]

\* get_or_compute that does not look at _in_flight.
Enter_NoWait(t, key) ==
    /\ waiters[t].pc = "idle"
    /\ IF once.cache[key] # Absent
       THEN /\ waiters' = [waiters EXCEPT ![t] =
                 [NotCalling EXCEPT !.key = key, !.result = "value",
                                    !.value = once.cache[key]]]
            /\ UNCHANGED once
       ELSE /\ waiters' = [waiters EXCEPT ![t] =
                 [NotCalling EXCEPT !.key = key, !.pc = "computing"]]
            /\ once' = [once EXCEPT !.in_flight = @ \cup {key}]
    /\ UNCHANGED cacheFrame

\* The first block of get_or_compute(key, ...): the cached value is
\* returned, or the thread waits on the condition of the computation in
\* flight, or it registers its own computation.
Enter(t, key) ==
    /\ waiters[t].pc = "idle"
    /\ IF once.cache[key] # Absent
       THEN /\ waiters' = [waiters EXCEPT ![t] =
                 [NotCalling EXCEPT !.key = key, !.result = "value",
                                    !.value = once.cache[key]]]
            /\ UNCHANGED once
       ELSE IF key \in once.in_flight
       THEN /\ waiters' = [waiters EXCEPT ![t] =
                 [NotCalling EXCEPT !.key = key, !.pc = "waiting",
                                    !.waited = TRUE]]
            /\ UNCHANGED once
       ELSE /\ waiters' = [waiters EXCEPT ![t] =
                 [NotCalling EXCEPT !.key = key, !.pc = "computing"]]
            /\ once' = [once EXCEPT !.in_flight = @ \cup {key}]
    /\ UNCHANGED cacheFrame

\* cond.notify_all(): every thread waiting for the key is woken.
NotifyAll(W, key) ==
    [t \in Threads |->
       IF W[t].pc = "waiting" /\ W[t].key = key
       THEN [W[t] EXCEPT !.pc = "woken"] ELSE W[t]]

\* compute_fn() returned: the value is cached, the key leaves _in_flight,
\* the waiters are notified and the value is returned.
ComputeSucceeds(t) ==
    /\ waiters[t].pc = "computing"
    /\ LET key == waiters[t].key
           value == once.successes[key] + 1
       IN /\ once' = [once EXCEPT !.cache[key] = value,
                                  !.in_flight = @ \ {key},
                                  !.successes[key] = value]
          /\ waiters' = NotifyAll(Returns(t, "value", value), key)
    /\ UNCHANGED cacheFrame

\* compute_fn() raised: the key leaves _in_flight, the waiters are notified
\* and the exception is raised again.
ComputeRaises(t) ==
    /\ waiters[t].pc = "computing"
    /\ LET key == waiters[t].key
       IN /\ once' = [once EXCEPT !.in_flight = @ \ {key}]
          /\ waiters' = NotifyAll(Returns(t, "raised", Absent), key)
    /\ UNCHANGED cacheFrame

\* A woken waiter holds the lock again: return self._cache[key]
Wake(t) ==
    /\ waiters[t].pc = "woken"
    /\ LET key == waiters[t].key
       IN waiters' = IF once.cache[key] # Absent
                     THEN Returns(t, "value", once.cache[key])
                     ELSE Returns(t, "KeyError", Absent)
    /\ UNCHANGED << once, cacheFrame >>

CacheNext ==
    \E t \in Threads :
       \/ \E key \in Keys : Enter(t, key)
       \/ ComputeSucceeds(t)
       \/ ComputeRaises(t)
       \/ Wake(t)

SpecCache == LibraryInit /\ [][CacheNext]_vars

\* ------------------------------------------------------------------------
\* save_setting and load_setting of one valid key called from several
\* threads, one file operation of save_setting a step.  mkstemp gives every
\* call a temporary file of its own; each file operation may fail with an
\* OSError.
\* ------------------------------------------------------------------------
atomicFrame ==
    << baseStore, histVars, sttVars, searchVars, reloadVars, guardVars, executorVars, cacheVars, engineVars >>

\* save_setting(key, value): the path is valid and the value serialised.
SaveBegin(t, content) ==
    /\ savers[t].pc = "idle"
    /\ savers' = [savers EXCEPT ![t] =
                     [NotSaving EXCEPT !.pc = "mkstemp", !.content = content]]
    /\ UNCHANGED << disk, atomicFrame >>

\* target_path.parent.mkdir(...); tempfile.mkstemp(...)
Mkstemp(t) ==
    /\ savers[t].pc = "mkstemp"
    /\ disk' = [disk EXCEPT !.temp[t] = <<>>]
    /\ savers' = [savers EXCEPT ![t].pc = "write"]
    /\ UNCHANGED atomicFrame

\* f.write(content); f.flush(): the bytes reach the temporary file in two
\* parts.
WritePart(t) ==
    /\ savers[t].pc = "write"
    /\ disk' = [disk EXCEPT !.temp[t] = SubSeq(savers[t].content, 1, 1)]
    /\ savers' = [savers EXCEPT ![t].pc = "flush"]
    /\ UNCHANGED atomicFrame

\* The rest of the bytes and os.fsync(f.fileno())
WriteRest(t) ==
    /\ savers[t].pc = "flush"
    /\ disk' = [disk EXCEPT !.temp[t] = savers[t].content]
    /\ savers' = [savers EXCEPT ![t].pc = "rename"]
    /\ UNCHANGED atomicFrame

\* temp_path.rename(target_path)
Rename(t) ==
    /\ savers[t].pc = "rename"
    /\ disk' = [disk EXCEPT !.target = disk.temp[t], !.temp[t] = Missing]
    /\ savers' = [savers EXCEPT ![t].pc = "fsync_dir", ![t].renamed = TRUE]
    /\ UNCHANGED atomicFrame

\* os.open of the directory, os.fsync, os.close; temp_path = None;
\* return True, the finally clause finding nothing to clean up.
FsyncDir(t) ==
    /\ savers[t].pc = "fsync_dir"
    /\ savers' = [savers EXCEPT ![t].pc = "idle", ![t].result = "True"]
    /\ UNCHANGED << disk, atomicFrame >>

\* The file operation the call has come to raises OSError: the except
\* clause makes the result False.
SaveFails(t) ==
    /\ savers[t].pc \in {"mkstemp", "write", "flush", "rename", "fsync_dir"}
    /\ savers' = [savers EXCEPT ![t].pc = "finally", ![t].result = "False"]
    /\ UNCHANGED << disk, atomicFrame >>

\* The finally clause after a failure: temp_path.unlink(missing_ok=True),
\* an OSError of which is passed over.
Finally(t) ==
    /\ savers[t].pc = "finally"
    /\ \E unlinked \in BOOLEAN :
          disk' = IF unlinked THEN [disk EXCEPT !.temp[t] = Missing] ELSE disk
    /\ savers' = [savers EXCEPT ![t].pc = "idle"]
    /\ UNCHANGED atomicFrame

\* load_setting(key, ...): target_path.read_text(), FileNotFoundError
\* giving the default.
Load(t) ==
    /\ savers[t].pc = "idle"
    /\ savers' = [savers EXCEPT ![t] =
                     [NotSaving EXCEPT !.result = "loaded",
                                       !.seen = disk.target]]
    /\ UNCHANGED << disk, atomicFrame >>

AtomicNext ==
    \E t \in Threads :
       \/ \E content \in Contents : SaveBegin(t, content)
       \/ Mkstemp(t)
       \/ WritePart(t)
       \/ WriteRest(t)
       \/ Rename(t)
       \/ FsyncDir(t)
       \/ SaveFails(t)
       \/ Finally(t)
       \/ Load(t)

SpecAtomic == LibraryInit /\ [][AtomicNext]_vars

\* ------------------------------------------------------------------------
\* DuskyControlCenter: do_activate and the hot reload of Ctrl+R, each a
\* handler of the UI thread.  The sidebar is the list of the titles of its
\* rows, the stack the list of the names of its children.
\* ------------------------------------------------------------------------
reloadFrame ==
    << baseStore, histVars, sttVars, searchVars, guardVars, executorVars, cacheVars, atomicVars,
       engineVars >>

PageName(idx) == << "page-", idx >>

\* _populate_pages from page idx on (idx counts from 1 here): an entry
\* that is no mapping is skipped; a page appends its sidebar row, then
\* builds its content, where iterating over a layout that is no list
\* raises TypeError, then is added to the stack.
RECURSIVE PopulateFrom(_, _, _)
PopulateFrom(pages, idx, built) ==
    IF idx > Len(pages) THEN built
    ELSE IF ~pages[idx].dict THEN PopulateFrom(pages, idx + 1, built)
    ELSE LET with_row == [built EXCEPT !.sidebar = Append(@, pages[idx].title)]
         IN IF pages[idx].layout # "list"
            THEN [with_row EXCEPT !.raised = TRUE]
            ELSE PopulateFrom(pages, idx + 1,
                    [with_row EXCEPT !.stack = Append(@, PageName(idx - 1))])

\* _populate_pages(): the empty state for an empty "pages" list.
PopulatePages(pages, built) ==
    IF pages = <<>> THEN [built EXCEPT !.stack = Append(@, <<"empty-state">>)]
    ELSE PopulateFrom(pages, 1, built)

\* _clear_ui(), _create_search_page(), _populate_pages() with the pages
\* given.
Rebuild(pages) ==
    PopulatePages(pages, [sidebar |-> <<>>,
                          stack |-> << <<"search-results">> >>,
                          raised |-> FALSE])

\* do_activate(): load_config, _build_ui; window.present() is reached only
\* when _populate_pages returned.
DoActivate ==
    /\ app.window = "none"
    /\ \E config \in Configs :
          LET built == Rebuild(config)
          IN app' = [config |-> config, sidebar |-> built.sidebar,
                     stack |-> built.stack,
                     window |-> IF built.raised THEN "not presented"
                                ELSE "presented"]
    /\ UNCHANGED << reload, reloadFrame >>

\* _reload_app(): load_config or the loading of the style sheet may raise
\* (early); else the new config is assigned, the UI cleared and built
\* again; the except clause assigns the old config.
ReloadApp ==
    /\ app.window = "presented"
    /\ \E new_config \in Configs, early \in BOOLEAN :
          LET old_config == app.config
              built == Rebuild(new_config)
          IN IF early
             THEN /\ reload' = [result |-> "failed", old_config |-> old_config]
                  /\ UNCHANGED app
             ELSE /\ app' = [app EXCEPT
                               !.config = IF built.raised THEN old_config
                                          ELSE new_config,
                               !.sidebar = built.sidebar,
                               !.stack = built.stack]
                  /\ reload' = [result |-> IF built.raised THEN "failed"
                                           ELSE "reloaded",
                                old_config |-> old_config]
    /\ UNCHANGED reloadFrame

ReloadNext ==
    \/ DoActivate
    \/ ReloadApp

SpecReload == LibraryInit /\ [][ReloadNext]_vars

\* ------------------------------------------------------------------------
\* The search of DuskyControlCenter: the search entry emits search-changed
\* after its text has changed, _on_search_changed arms a timeout of
\* SEARCH_DEBOUNCE_MS for _execute_search.  A timeout that is pending may
\* fire at any step: events that follow each other faster than the delay
\* are events with no firing between them.
\* ------------------------------------------------------------------------
searchFrame ==
    << baseStore, histVars, sttVars, guardVars, executorVars, cacheVars, atomicVars,
       reloadVars, engineVars >>

\* The id GLib.timeout_add returns: one that no pending timeout has.
NewTimeoutId(pending) ==
    CHOOSE id \in 1..(Cardinality(pending) + 1) :
       \A tm \in pending : tm.id # id

\* _cancel_debounce(): GLib.source_remove of the stored id.
CancelDebounce(pending, source_id) ==
    IF source_id = None THEN pending
    ELSE { tm \in pending : tm.id # source_id }

\* The user edits the text of the search entry.
UserTypes(text) ==
    /\ finder.running
    /\ text # finder.entry
    /\ finder' = [finder EXCEPT !.entry = text, !.changed = TRUE]
    /\ UNCHANGED << timeouts, searched, searchFrame >>

\* _on_search_changed that does not cancel the pending timeout.
OnSearchChanged_NoCancel ==
    /\ finder.running
    /\ finder.changed
    /\ LET id == NewTimeoutId(timeouts)
       IN /\ timeouts' = timeouts \cup {[id |-> id, query |-> finder.entry]}
          /\ finder' = [finder EXCEPT !.search_debounce_source = id,
                                      !.changed = FALSE]
    /\ searched' = [searched EXCEPT !.event = TRUE, !.text = finder.entry,
                       !.cancelled = (timeouts # {}), !.since = 0]
    /\ UNCHANGED searchFrame

\* _on_search_changed(entry)
OnSearchChanged ==
    /\ finder.running
    /\ finder.changed
    /\ LET kept == CancelDebounce(timeouts, finder.search_debounce_source)
           id == NewTimeoutId(kept)
       IN /\ timeouts' = kept \cup {[id |-> id, query |-> finder.entry]}
          /\ finder' = [finder EXCEPT !.search_debounce_source = id,
                                      !.changed = FALSE]
    /\ searched' = [searched EXCEPT !.event = TRUE, !.text = finder.entry,
                       !.cancelled = (timeouts # {}), !.since = 0]
    /\ UNCHANGED searchFrame

\* _execute_search(query_text), called by the main loop when the timeout
\* has expired; it returns SOURCE_REMOVE on every path.
ExecuteSearch ==
    \E tm \in timeouts :
       LET query == Strip(Lower(tm.query))
           cleared == [finder EXCEPT !.search_debounce_source = None]
       IN /\ timeouts' = timeouts \ {tm}
          /\ finder' =
               IF query = <<>>
               THEN [cleared EXCEPT !.title = <<>>]
               ELSE [cleared EXCEPT
                       !.last_visible_page =
                           IF finder.visible # SearchPage
                           THEN finder.visible ELSE @,
                       !.visible = SearchPage,
                       !.title = query]
          /\ searched' = [searched EXCEPT !.since = @ + 1,
                                          !.query = tm.query]
          /\ UNCHANGED searchFrame

\* _on_row_selected: a sidebar row shows its page.
RowSelected(page) ==
    /\ finder.running
    /\ finder.visible # page
    /\ finder' = [finder EXCEPT !.visible = page]
    /\ UNCHANGED << timeouts, searched, searchFrame >>

\* _deactivate_search() / _exit_search_mode(): the entry is emptied and
\* the page shown before the search is shown again.
ExitSearchMode ==
    /\ finder.running
    /\ finder' = [finder EXCEPT
                    !.entry = <<>>,
                    !.changed = @ \/ finder.entry # <<>>,
                    !.visible = IF finder.last_visible_page # <<>>
                                THEN finder.last_visible_page ELSE @]
    /\ UNCHANGED << timeouts, searched, searchFrame >>

\* do_shutdown()
DoShutdown ==
    /\ finder.running
    /\ timeouts' = CancelDebounce(timeouts, finder.search_debounce_source)
    /\ finder' = [finder EXCEPT !.search_debounce_source = None,
                                !.running = FALSE]
    /\ UNCHANGED << searched, searchFrame >>

SearchNext ==
    \/ \E text \in SearchTexts : UserTypes(text)
    \/ OnSearchChanged
    \/ ExecuteSearch
    \/ \E page \in ShownPages : RowSelected(page)
    \/ ExitSearchMode
    \/ DoShutdown

SpecSearch == LibraryInit /\ [][SearchNext]_vars

\* ------------------------------------------------------------------------
\* The speech-to-text daemon: clients write requests to the FIFO, the
\* FifoReader thread reads whatever the FIFO holds when it wakes and puts
\* a task on the queue, the main thread takes the tasks off the queue and
\* transcribes them.  The bytes of the FIFO are a sequence of tokens: the
\* path of an audio file (named by the number of its request), "|", a model name,
\* a line feed.
\* ------------------------------------------------------------------------
sttFrame ==
    << baseStore, histVars, guardVars, executorVars, cacheVars, atomicVars,
       reloadVars, searchVars, engineVars >>

QUEUE_SIZE == 5

DEFAULT_MODEL == "distil-large-v3"

\* payload.split('|')
RECURSIVE Split(_, _)
Split(payload, part) ==
    IF payload = <<>> THEN << part >>
    ELSE IF Head(payload) = "|"
         THEN << part >> \o Split(Tail(payload), <<>>)
         ELSE Split(Tail(payload), Append(part, Head(payload)))

\* A client records audio to a file of its own and writes
\* "<audio path>|<model name>" to the FIFO, with or without a line feed
\* at its end.
WriteRequest(model_name, line_feed) ==
    /\ Len(requests) < MaxRequests
    /\ LET audio_path == ToString(Len(requests) + 1)
       IN /\ fifo' = fifo \o << audio_path, "|", model_name >>
                         \o (IF line_feed THEN << "\n" >> ELSE <<>>)
          /\ stt' = [stt EXCEPT !.files = @ \cup {audio_path}]
          /\ requests' = Append(requests, << <<audio_path>>, <<model_name>> >>)
    /\ UNCHANGED sttFrame

\* One round of the loop of FifoReader.run with data to read: everything
\* in the FIFO is read and taken as one payload; task_queue.put waits
\* while the queue is full.
ReaderWakes ==
    /\ fifo # <<>>
    /\ LET payload == Strip(fifo)
           parts == Split(payload, <<>>)
           audio_path == Strip(parts[1])
           model_name == IF Len(parts) > 1 THEN Strip(parts[2])
                         ELSE << DEFAULT_MODEL >>
           exists == Len(audio_path) = 1 /\ audio_path[1] \in stt.files
       IN IF payload # <<>> /\ exists
          THEN /\ Len(stt.task_queue) < QUEUE_SIZE
               /\ stt' = [stt EXCEPT !.task_queue =
                                        Append(@, << audio_path, model_name >>)]
          ELSE UNCHANGED stt
    /\ fifo' = <<>>
    /\ UNCHANGED << requests, sttFrame >>

\* One round of the loop of DuskySTTDaemon.start with a task on the queue:
\* transcribe(audio_path, model_name), which removes the audio file.
Transcribe ==
    /\ stt.task_queue # <<>>
    /\ LET task == Head(stt.task_queue)
       IN stt' = [stt EXCEPT !.task_queue = Tail(@),
                             !.transcribed = Append(@, task),
                             !.files = @ \ {task[1][1]}]
    /\ UNCHANGED << fifo, requests, sttFrame >>

SttNext ==
    \/ \E model_name \in ModelNames, line_feed \in BOOLEAN :
          WriteRequest(model_name, line_feed)
    \/ ReaderWakes
    \/ Transcribe

SpecStt == LibraryInit /\ [][SttNext]_vars

\* ------------------------------------------------------------------------
\* Properties
\* ------------------------------------------------------------------------
\* An invocation is outstanding while its completion callback has not run
\* and its cancellable has not been cancelled.
Outstanding(i) == inv[i].calls = 0 /\ ~inv[i].cancelled

OutstandingOn(slot) == {i \in DOMAIN inv : inv[i].slot = slot /\ Outstanding(i)}

Range(f) == {f[x] : x \in DOMAIN f}

\* C1: in every reachable state each PollSlot has at most one outstanding
\* invocation (started, not completed, not cancelled).
AtMostOneInFlight ==
    \A slot \in SlotNames : Cardinality(OutstandingOn(slot)) <= 1

\* C1 witness: three fetches were started on one slot, the completion of
\* the first has still not arrived, and the third is in flight.
LateCompletionReached ==
    /\ Len(inv) = 3
    /\ inv[1].slot = inv[3].slot /\ inv[2].slot = inv[3].slot
    /\ inv[1].calls = 0
    /\ Outstanding(3)

\* C2: once the widget is destroyed, no step other than a user input or a
\* start operation (that is: no completion, idle callback, file event or
\* timer callback) changes what the widget shows.
FrozenAfterTeardown ==
    [][(is_destroyed /\ inputs' = inputs /\ started' = started)
          => ui' = ui]_vars

\* C2 witness: the widget is destroyed while an idle-queued state update
\* carrying a value different from the one shown is still to be dispatched.
CallbackAfterTeardown ==
    /\ is_destroyed
    /\ idleq # <<>>
    /\ Head(idleq).cb = "apply_state_update"
    /\ Head(idleq).val # ui.active

\* The kinds of GLib source owned by the widget state (the process timeout
\* of an invocation belongs to the invocation).
WidgetTimerKinds ==
    {"poll", "debounce", "label", "selection", "badge", "button"}

\* C3: when teardown returns the widget is destroyed, every handle held by
\* a slot was cancelled and cleared, every timer id field is 0, every id
\* stored before is in the returned tuple, and no periodic or debounce
\* timer remains armed.
TeardownPostcondition ==
    [][(teardowns' = teardowns + 1) =>
         /\ is_destroyed'
         /\ \A s \in SlotNames :
              /\ slots'[s].cancellable = None
              /\ slots'[s].source_id = 0
              /\ slots[s].source_id \in Range(returned')
              /\ slots[s].cancellable \in DOMAIN inv
                    => inv'[slots[s].cancellable].cancelled
              /\ slots[s].cancellable = FileMonitorHandle
                    => fmon' = "cancelled"
         /\ debounce_source_id' = 0
         /\ debounce_source_id \in Range(returned')
         /\ \A src \in sources' : src.kind \notin WidgetTimerKinds
      ]_vars

\* C3 witness: a teardown returned a periodic timer id and a debounce timer
\* id and cancelled an invocation that was in flight.
TeardownHarvested ==
    /\ teardowns = 1
    /\ returned[3] > 0 /\ returned[5] > 0
    /\ \E i \in DOMAIN inv : inv[i].cancelled /\ inv[i].calls = 0
                               /\ ~inv[i].timedout

DestroyedIsTerminal ==
    [][is_destroyed =>
         /\ is_destroyed'
         /\ debounce_source_id' = 0
         /\ \A s \in SlotNames :
              slots'[s].source_id = 0 /\ slots'[s].cancellable = None
      ]_vars

\* C6 (as claimed): a timer tick never launches a fetch on a slot that
\* still has an outstanding invocation.
TickSkipsWhileOutstanding ==
    [][(pc.at = "idle" /\ pc'.at = "store" /\ pc'.then = "ret") =>
         OutstandingOn(pc'.slot) = {}
      ]_vars

DebounceSources == {src \in sources : src.kind = "debounce"}

\* C7: with debouncing enabled at most one debounce timer is armed; while
\* accepted inputs wait, exactly the stored timer is armed and the pending
\* value is the last accepted one; every write was produced by one timer
\* firing for a whole burst and carries the burst's last snapped value.
LastWriteWins ==
    props.debounce =>
      /\ Cardinality(DebounceSources) <= 1
      /\ burst.n = 0 => DebounceSources = {}
      /\ (burst.n > 0 /\ ~is_destroyed) =>
           /\ \E src \in DebounceSources : src.id = debounce_source_id
           /\ slider.pending_value = burst.last
      /\ \A k \in 1..Len(writes) :
           /\ writes[k].burst.n >= 1
           /\ writes[k].arg = IntOf(writes[k].burst.last)

\* C7 witness: one write was executed for a burst of three accepted inputs.
BurstOfThreeWritten ==
    /\ props.debounce
    /\ Len(writes) = 1
    /\ writes[1].burst.n = 3
    /\ inputs = 3

PollArmed(slot) == \E src \in sources : src.kind = "poll" /\ src.slot = slot

\* A fetch is pending on the slot: an invocation whose completion has not
\* run, a queued spawn-failure callback, the launch in progress, or (for a
\* LabelRow) a pool task that has not reached the end of its finally block.
FetchPending(slot) ==
    \/ \E i \in DOMAIN inv : inv[i].slot = slot /\ inv[i].calls = 0
    \/ \E k \in 1..Len(idleq) : idleq[k].cb = "on_result" /\ idleq[k].slot = slot
    \/ pc.at = "store" /\ pc.slot = slot
    \/ /\ slot = "value"
       /\ \E t \in DOMAIN tasks : /\ tasks[t].kind = "label"
                                   /\ tasks[t].step \in {"queued", "finally"}

\* C8: a completion without output leaves what the widget shows unchanged,
\* clears the running flag and keeps the periodic timer armed; the running
\* flag is never left set with no fetch pending (so a later tick fetches
\* again); an invocation that timed out never delivers output.
FailureKeepsPolling ==
    /\ [](\A i \in DOMAIN inv : inv[i].timedout => ~inv[i].got_output)
    /\ [](\A s \in SlotNames :
            (slots[s].is_running /\ ~is_destroyed) => FetchPending(s))
    /\ [][\A i \in DOMAIN inv :
            (inv[i].calls = 0 /\ inv'[i].calls = 1 /\ ~inv'[i].got_output) =>
              /\ ui' = ui
              /\ ~slots'[inv[i].slot].is_running
              /\ PollArmed(inv[i].slot) => PollArmed(inv[i].slot)'
         ]_vars

\* C8 witness: an invocation timed out, its completion ran, and a later
\* tick has started a new fetch on the same slot.
PolledAgainAfterTimeout ==
    \E i, j \in DOMAIN inv :
        /\ i < j
        /\ inv[i].timedout /\ inv[i].calls = 1
        /\ inv[j].slot = inv[i].slot
        /\ ~inv[j].cancelled
        /\ PollArmed(inv[i].slot)

\* C10 (as claimed): once the handle is cancelled, on_complete is never
\* invoked.
CancelSuppressesCallback ==
    \A i \in DOMAIN inv : inv[i].cancelled => inv[i].calls = 0

\* C10 (amended): on_complete of a cancelled invocation is invoked at most
\* once and only with None; a further cancel changes nothing.
CancelledCompletesWithNone ==
    \A i \in DOMAIN inv :
        /\ inv[i].calls <= 1
        /\ inv[i].cancelled => ~inv[i].got_output

\* C10 witness: an invocation was cancelled twice (by its timeout and by
\* the fetch that superseded it) and its on_complete has run.
CancelledTwiceCompleted ==
    \E i, j \in DOMAIN inv :
        /\ i < j /\ inv[j].slot = inv[i].slot
        /\ inv[i].timedout /\ inv[i].cancelled /\ inv[i].calls = 1
        /\ slots[inv[i].slot].cancellable = j

\* C9: the spawned argv is the split of the command exactly when the
\* command has no shell metacharacter, splits without error and the split
\* is non-empty; otherwise it is ["/bin/sh", "-c", command]; malformed
\* quoting never raises.  Two concrete commands anchor the split.
DirectExecIffPlain ==
    argv # <<>> =>
      /\ argv # Raised
      /\ IF ~HasMetachar(command) /\ ShlexSplit(command).ok
            /\ ShlexSplit(command).argv # <<>>
         THEN argv = ShlexSplit(command).argv
         ELSE argv = << <<"/bin/sh">>, <<"-c">>, command >>
      /\ command = << "a", " ", "a" >> => argv = << <<"a">>, <<"a">> >>
      /\ command = << "a", "|", "a" >> =>
           argv = << <<"/bin/sh">>, <<"-c">>, << "a", "|", "a" >> >>
      /\ command = << "'", "a" >> =>
           argv = << <<"/bin/sh">>, <<"-c">>, << "'", "a" >> >>
      /\ command = << "'", " ", "'" >> => argv = << << " " >> >>

\* C9 witness: a command with malformed quoting was dispatched through the
\* shell wrapper.
MalformedQuotingWrapped ==
    /\ command = << "a", " ", "'" >>
    /\ argv = << <<"/bin/sh">>, <<"-c">>, command >>

\* C11: on_output is never invoked for an invocation that was cancelled
\* (superseded by a newer fetch, cancelled by teardown or by its timeout),
\* and the completion of a cancelled invocation changes nothing shown.
NoOutputAfterCancel ==
    /\ [](\A i \in DOMAIN inv : inv[i].cancelled => ~inv[i].delivered)
    /\ [][\A i \in DOMAIN inv :
            (inv[i].cancelled /\ inv[i].calls = 0 /\ inv'[i].calls = 1) =>
               ui' = ui /\ slider' = slider]_vars

\* C11 witness: on one slot a first invocation was superseded by a second,
\* the second was cancelled by teardown, and both completions have run.
SupersededAndTornDownCompleted ==
    /\ is_destroyed
    /\ Len(inv) = 2
    /\ inv[1].slot = inv[2].slot
    /\ \A i \in 1..2 : inv[i].cancelled /\ ~inv[i].timedout /\ inv[i].calls = 1

TimeoutArmed(i) == \E src \in sources : src.kind = "timeout" /\ src.inv = i

\* C12: when the timeout of an invocation fires before its completion the
\* handle is cancelled, the completion then reports None and no output of
\* the process is delivered; once an invocation has completed its timeout
\* timer is gone, so it never fires and never cancels anything.
TimeoutIsFailure ==
    /\ [](\A i \in DOMAIN inv :
            /\ inv[i].timedout =>
                  inv[i].cancelled /\ ~inv[i].got_output /\ ~inv[i].delivered
            /\ inv[i].calls = 1 =>
                  ~TimeoutArmed(i) /\ inv[i].timeout_source_id = 0)
    /\ [][\A i \in DOMAIN inv :
            /\ (~inv[i].timedout /\ inv'[i].timedout) =>
                  inv[i].calls = 0 /\ inv'[i].cancelled
            /\ inv[i].calls = 1 =>
                  inv'[i].timedout = inv[i].timedout
                  /\ inv'[i].cancelled = inv[i].cancelled]_vars

\* C12 witness: one invocation timed out and then completed, another
\* completed with output before its timeout could fire.
TimedOutAndInTimeCompleted ==
    \E i, j \in DOMAIN inv :
        /\ inv[i].timedout /\ inv[i].calls = 1
        /\ ~inv[j].timedout /\ inv[j].got_output

\* C13 (as claimed): on_output is invoked only with the non-empty trimmed
\* output of a process that exited successfully; a completion whose output
\* is empty once trimmed is a failure and updates nothing.
OnlyNonEmptyTrimmedOutput ==
    \A i \in DOMAIN inv :
        inv[i].delivered =>
            /\ inv[i].exit_ok
            /\ ~inv[i].blank

SourcesWithId(id) == {src \in sources : src.id = id}

\* C14: every non-zero id stored in a slot's source_id or in
\* debounce_source_id is the id of exactly one armed timer of the widget
\* (of that slot, respectively the debounce timer), and every armed timer
\* of the widget has its id stored in the field it belongs to.
StoredIdsAreArmedTimers ==
    /\ \A s \in SlotNames :
          slots[s].source_id # 0 =>
            /\ Cardinality(SourcesWithId(slots[s].source_id)) = 1
            /\ \A src \in SourcesWithId(slots[s].source_id) :
                  src.kind \in WidgetTimerKinds \ {"debounce"} /\ src.slot = s
    /\ debounce_source_id # 0 =>
          /\ Cardinality(SourcesWithId(debounce_source_id)) = 1
          /\ \A src \in SourcesWithId(debounce_source_id) : src.kind = "debounce"
    /\ \A src \in sources :
          src.kind \in WidgetTimerKinds =>
            IF src.kind = "debounce"
            THEN debounce_source_id = src.id
            ELSE slots[src.slot].source_id = src.id

\* C14 witness: a debounce timer has fired and cleared its id while the
\* periodic timer of the value slot is armed and stored.
DebounceFiredPollStored ==
    /\ Len(writes) = 1
    /\ debounce_source_id = 0
    /\ props.debounce
    /\ slots["value"].source_id # 0
    /\ PollArmed("value")

\* Results of the polling engine are applied in the order of the launches:
\* no invocation delivers after a later invocation of its slot delivered.
EngineResultsInStartOrder ==
    [][\A i, j \in DOMAIN inv :
         (i < j /\ inv[i].slot = inv[j].slot
            /\ ~inv[i].delivered /\ inv'[i].delivered) =>
           ~inv[j].delivered]_vars

\* The same for the LabelRow loader: no task's text is applied after the
\* text of a task submitted later.
LoaderResultsInStartOrder ==
    [][\A t, u \in DOMAIN tasks :
         (t < u /\ tasks[t].kind = "label" /\ tasks[u].kind = "label"
            /\ ~tasks[t].applied /\ tasks'[t].applied) =>
           ~tasks[u].applied]_vars

\* C15 (as claimed): on one slot a result is never applied after the result
\* of a fetch that was started later, for the invocations of the polling
\* engine and for the pool tasks of the LabelRow loader alike.
ResultsAppliedInStartOrder ==
    EngineResultsInStartOrder /\ LoaderResultsInStartOrder

\* C16: a load_setting with a boolean default that reads the file as a
\* successful save_setting of the boolean b left it returns b XOR
\* is_inversed, whatever as_int was and whatever the default is; saving
\* true and loading with default false gives true, and false when inversed.
SettingsRoundTrip ==
    (op.kind = "load" /\ op.value.t = "bool" /\ op.seen.saved) =>
        /\ op.result = BoolVal(op.seen.saved_b # op.flag)
        /\ (op.seen.saved_b /\ op.value = BoolVal(FALSE) /\ ~op.flag)
               => op.result = BoolVal(TRUE)
        /\ (op.seen.saved_b /\ op.value = BoolVal(FALSE) /\ op.flag)
               => op.result = BoolVal(FALSE)

\* C16 witness: true was saved as the text "True" and then loaded inversed
\* with default false, giving false.
SavedTrueLoadedInversed ==
    /\ op.kind = "load"
    /\ op.seen.saved
    /\ op.seen.saved_b
    /\ ~op.seen.saved_as_int
    /\ op.seen.text = True
    /\ op.flag
    /\ op.value = BoolVal(FALSE)
    /\ op.result = BoolVal(FALSE)

\* The text read by a load does not parse as the type of the default.
Unparseable(text, default) ==
    CASE default.t = "bool" ->
           /\ Strip(Lower(Strip(text))) \notin
                  { <<"t","r","u","e">>, <<"y","e","s">>, <<"o","n">>, <<"1">>,
                    <<"f","a","l","s","e">>, <<"n","o">>, <<"o","f","f">>,
                    <<"0">>, <<>> }
           /\ ~ParseInt(Strip(text)).ok
      [] default.t = "int" -> ~ParseInt(Strip(text)).ok
      [] default.t = "float" -> ParseFloat(Strip(text)) = -1
      [] OTHER -> FALSE

\* C17: load_setting never raises, and returns exactly the default when the
\* key is invalid, the file is absent or unreadable, or its text does not
\* parse as the type of the default.
LoadFallsBackToDefault ==
    op.kind = "load" =>
        /\ op.result.t # "raise"
        /\ ( \/ ~ValidateSettingsPath(op.key).valid
             \/ op.seen.kind \in {"absent", "unreadable"}
             \/ op.seen.kind = "text" /\ Unparseable(op.seen.text, op.value) )
               => op.result = op.value

\* C18: every load_setting and save_setting call a widget makes runs on a
\* worker of the thread pool, never on the UI thread.
SettingsCallsOnPoolOnly ==
    settings_call.fn # "none" => settings_call.thread = "pool"

\* C19: a failed submit of the label loader is an ordinary failure: the
\* step in which it happens leaves the running flag of the value slot
\* clear, queues nothing, and touches neither what the row shows nor its
\* timer; and the flag is only ever set while a queued loader will clear it.
SubmitFailureIsNormal ==
    /\ [](props.cls = "LabelRow" /\ slots["value"].is_running =>
             \E t \in DOMAIN tasks : /\ tasks[t].kind = "label"
                                       /\ tasks[t].step \in {"queued", "finally"})
    /\ [][submit_failed_at' # submit_failed_at =>
             /\ ~slots'["value"].is_running
             /\ tasks' = tasks
             /\ ui' = ui
             /\ idleq' = idleq
             /\ sources \subseteq sources']_vars

\* C19 witness: the submit failed while the row was constructed, a later
\* tick queued the loader, and its text reached the label.
FetchedAfterFailedSubmit ==
    /\ submit_failed_at = 0
    /\ Len(tasks) >= 1
    /\ tasks[1].kind = "label"
    /\ tasks[1].applied

\* The step in which _start_state_monitor runs.
StateMonitorSetup == "monitor" \notin started /\ "monitor" \in started'

\* A periodic poll is armed on the monitor slot in this step.
MonitorPollArmed ==
    /\ slots'["monitor"].source_id # None
    /\ slots'["monitor"].source_id # slots["monitor"].source_id
    /\ \E src \in sources' \ sources :
          /\ src.kind = "poll"
          /\ src.slot = "monitor"
          /\ src.id = slots'["monitor"].source_id

\* Whatever the step does, a row polls or watches, never both: without a
\* state_command no timer and no invocation ever exists on the monitor slot,
\* and with one no file monitor ever exists.
MechanismsExclusive ==
    props.cls = "ToggleRow" =>
        /\ ~props.state_command =>
              /\ \A src \in sources : src.slot # "monitor"
              /\ \A i \in DOMAIN inv : inv[i].slot # "monitor"
              /\ slots["monitor"].source_id = None
        /\ props.state_command =>
              /\ fmon = "none"
              /\ slots["monitor"].cancellable # FileMonitorHandle
        /\ (~props.state_command /\ ~props.key) =>
              /\ fmon = "none"
              /\ slots["monitor"] = EmptySlot

\* C20 as stated: with a state_command the setup arms a periodic poll on
\* the monitor slot, starts no fetch and creates no file monitor; with a
\* key and no state_command it creates a file monitor, stores it in the
\* cancel handle of the monitor slot and arms no timer; with neither it
\* does nothing.
SetupChoosesOneMechanism ==
    /\ []MechanismsExclusive
    /\ [][StateMonitorSetup =>
             /\ props.state_command =>
                   /\ MonitorPollArmed
                   /\ UNCHANGED << inv, idleq, pc, fmon >>
             /\ (props.key /\ ~props.state_command) =>
                   /\ fmon' = "active"
                   /\ slots' = [slots EXCEPT
                                  !["monitor"].cancellable = FileMonitorHandle]
                   /\ UNCHANGED << sources, inv, idleq, pc >>
             /\ (~props.key /\ ~props.state_command) =>
                   UNCHANGED << slots, sources, inv, idleq, pc, fmon >>]_vars

\* C20 amended: as above, except that on a row already torn down the
\* state_command branch arms nothing, and that when monitor_file raises
\* the key branch leaves the slot as it was.
SetupChoosesOneMechanismIfAlive ==
    /\ []MechanismsExclusive
    /\ [][StateMonitorSetup =>
             /\ props.state_command =>
                   /\ IF is_destroyed
                      THEN UNCHANGED << slots, sources >>
                      ELSE MonitorPollArmed
                   /\ UNCHANGED << inv, idleq, pc, fmon >>
             /\ (props.key /\ ~props.state_command) =>
                   /\ \/ /\ fmon' = "active"
                         /\ slots' = [slots EXCEPT
                                  !["monitor"].cancellable = FileMonitorHandle]
                      \/ UNCHANGED << slots, fmon >>
                   /\ UNCHANGED << sources, inv, idleq, pc >>
             /\ (~props.key /\ ~props.state_command) =>
                   UNCHANGED << slots, sources, inv, idleq, pc, fmon >>]_vars

\* C20 witness: a row with both a key and a state_command was set up alive:
\* it polls on the monitor slot and has no file monitor.
BothGivenPollChosen ==
    /\ props.cls = "ToggleRow"
    /\ props.key
    /\ props.state_command
    /\ "monitor" \in started
    /\ ~is_destroyed
    /\ \E src \in sources : src.kind = "poll" /\ src.slot = "monitor"
    /\ fmon = "none"

\* The step delivers an event of the file monitor.
FileEventStep == file_event' # file_event

\* The step queues _apply_state_update with the boolean read from the key.
StateUpdateQueued ==
    \E val \in BOOLEAN :
        idleq' = Append(idleq, IdleCb("apply_state_update", "", val, <<>>))

\* C21: a change-done or created event on a mapped row reads the key and
\* queues _apply_state_update with the boolean read, touching nothing
\* else; an event on an unmapped row, or of another type, reads nothing,
\* queues nothing and changes nothing.
FileEventQueuesStateUpdate ==
    [][FileEventStep =>
          /\ UNCHANGED << ui, slots, sources, inv, tasks >>
          /\ IF mapped /\ file_event'.type \in {"CHANGES_DONE_HINT", "CREATED"}
             THEN /\ StateUpdateQueued
                  /\ settings_call' = [fn |-> "load_setting", thread |-> "ui"]
             ELSE UNCHANGED << idleq, settings_call >>]_vars

\* C22: while an invocation that was not cancelled is outstanding on a
\* slot, the running flag of that slot is set.
OutstandingImpliesRunning ==
    \A slot \in SlotNames :
        OutstandingOn(slot) # {} => slots[slot].is_running

\* C23: under fair scheduling, the slow command of a mapped row that is
\* never torn down eventually has an output handed to the output handler.
SlowCommandDelivers == <>(\E i \in DOMAIN inv : inv[i].delivered)

\* The step runs the completion callback of invocation i.
Completes(i) == i \in DOMAIN inv /\ inv[i].calls = 0 /\ inv'[i].calls = 1

\* C24: the completion of invocation i clears the cancel handle of its
\* slot exactly when the slot holds the handle of i; a handle of another
\* invocation, and the handle of every other slot, is left in place.  The
\* queued completion of a failed spawn has no handle and clears none.
StaleCompletionKeepsHandle ==
    [][/\ \A i \in DOMAIN inv :
             Completes(i) =>
                \A s \in SlotNames :
                    slots'[s].cancellable =
                        IF s = inv[i].slot /\ slots[s].cancellable = i
                        THEN None ELSE slots[s].cancellable
       /\ (idleq # <<>> /\ idleq' = Tail(idleq)
              /\ Head(idleq).cb = "on_result") =>
                \A s \in SlotNames :
                    slots'[s].cancellable = slots[s].cancellable
      ]_vars

\* C24 witness: an invocation superseded by a newer one has completed, and
\* the slot still holds the handle of the newer one, which is in flight.
StaleCompletedNewerHeld ==
    /\ ~is_destroyed
    /\ \E i, j \in DOMAIN inv :
          /\ i < j
          /\ inv[i].slot = inv[j].slot
          /\ inv[i].cancelled
          /\ ~inv[i].timedout
          /\ inv[i].calls = 1
          /\ inv[j].calls = 0
          /\ ~inv[j].cancelled
          /\ slots[inv[j].slot].cancellable = j

\* The step is the tail of _poll_command.
StoreStep == pc.at = "store" /\ pc'.at = "idle"

\* C25: when the row was destroyed between the launch and the tail of
\* _poll_command, the tail cancels the new handle and leaves the slot
\* without it; on a destroyed row no step launches a process, a start
\* operation leaves the running flag of its slot clear, and no slot ever
\* holds the handle of an invocation.
DestroyedLaunchIsCancelled ==
    /\ [](is_destroyed =>
             \A s \in SlotNames : slots[s].cancellable \notin DOMAIN inv)
    /\ [][/\ (StoreStep /\ is_destroyed /\ pc.handle # None) =>
                /\ inv'[pc.handle].cancelled
                /\ slots'[pc.slot].cancellable = None
          /\ is_destroyed =>
                /\ Len(inv') = Len(inv)
                /\ \A s \in started' \ started : ~slots'[s].is_running
         ]_vars

\* C25 witness: the row was torn down while its immediate fetch was between
\* launch and store (no timer had been armed, so the teardown harvested no
\* id); the tail then cancelled the invocation and stored nothing.
LaunchCancelledByTeardown ==
    /\ pc = PcIdle
    /\ teardowns = 1
    /\ \A k \in DOMAIN returned : returned[k] = 0
    /\ "icon" \in started
    /\ Len(inv) = 1
    /\ inv[1].cancelled
    /\ slots["icon"].cancellable = None
    /\ slots["icon"].source_id = 0

\* Every invocation launched so far has had its on_complete called and no
\* running flag is set.
Quiescent ==
    /\ \A i \in DOMAIN inv : inv[i].calls = 1
    /\ \A s \in SlotNames : ~slots[s].is_running

\* C26: on_complete is never called twice for one invocation, and again and
\* again every invocation launched so far has had its on_complete called
\* and every running flag is clear, whether the process exits, fails to
\* spawn, hangs until the timeout or is cancelled: no invocation stays
\* without its callback and no flag stays set.
CompletesExactlyOnce ==
    /\ [](\A i \in DOMAIN inv : inv[i].calls <= 1)
    /\ []<>Quiescent

\* C26 witness: the fetch started by a tick of the state monitor hung, was
\* cancelled by its timeout, completed once and left the flag clear.
TimedOutFetchCleared ==
    /\ props.state_command
    /\ Len(inv) = 1
    /\ inv[1].slot = "monitor"
    /\ inv[1].timedout
    /\ inv[1].calls = 1
    /\ ~slots["monitor"].is_running

PollTimers == {src \in sources : src.kind = "poll"}

\* A step of the main loop on an unmapped row that is neither a start
\* operation nor a teardown; every tick of an unmapped row is such a step.
UnmappedStep ==
    /\ ~mapped
    /\ pc = PcIdle
    /\ started' = started
    /\ teardowns' = teardowns

\* The next tick of the slot launches a fetch.
TickFetches(slot) ==
    ENABLED (PollTick(slot) /\ pc'.at = "store")

\* C27: while the row is unmapped no tick starts a fetch, sets a running
\* flag, stores a cancel handle, changes a timer id or disarms a poll
\* timer; and whenever the row is mapped, alive and idle, the tick of an
\* armed slot whose flag is clear launches a fetch.
UnmappedTickIsNoOp ==
    /\ [][UnmappedStep =>
            /\ Len(inv') = Len(inv)
            /\ pc' = PcIdle
            /\ PollTimers' = PollTimers
            /\ \A s \in SlotNames :
                  /\ slots'[s].is_running => slots[s].is_running
                  /\ slots'[s].cancellable \in {slots[s].cancellable, None}
                  /\ slots'[s].source_id = slots[s].source_id
         ]_vars
    /\ [](\A src \in PollTimers :
            (/\ mapped /\ ~is_destroyed /\ pc = PcIdle
             /\ ~slots[src.slot].is_running
             /\ Len(inv) < InvBound) => TickFetches(src.slot))

\* C27 witness: a row that fetched while mapped is unmapped, alive and idle
\* with its poll timer armed and its flag clear, so the tick that fires now
\* is the skipped one.
UnmappedWithArmedTimer ==
    /\ ~mapped
    /\ ~is_destroyed
    /\ pc = PcIdle
    /\ \E src \in PollTimers :
         /\ slots[src.slot].source_id = src.id
         /\ ~slots[src.slot].is_running
         /\ \E i \in DOMAIN inv : inv[i].slot = src.slot /\ inv[i].delivered
         /\ ENABLED PollTick(src.slot)

\* The step is a slider input whose snapped value is the last snapped one.
DuplicateInput ==
    /\ inputs' = inputs + 1
    /\ slider.last_snapped # -1
    /\ slider'.last_snapped = slider.last_snapped

\* C28: a slider input whose snapped and clamped value equals the last
\* snapped value arms no timer, leaves a pending debounce timer and its id
\* as they are, leaves the pending value and the last snapped value
\* unchanged and executes no write.
DuplicateInputHasNoEffect ==
    [][DuplicateInput =>
         /\ sources' = sources
         /\ nextSource' = nextSource
         /\ debounce_source_id' = debounce_source_id
         /\ slider' = slider
         /\ burst' = burst
         /\ writes' = writes
      ]_vars

\* C28 witness: of two inputs to a live debounced slider the second was a
\* duplicate: one value is pending on the armed timer and nothing has been
\* written.
DuplicateWhilePending ==
    /\ props.debounce
    /\ ~is_destroyed
    /\ inputs = 2
    /\ burst.n = 1
    /\ writes = <<>>
    /\ slider.pending_value = slider.last_snapped
    /\ ui.value # slider.last_snapped
    /\ \E src \in sources : src.kind = "debounce" /\ src.id = debounce_source_id

\* A slider without debouncing never has a debounce timer, and each of its
\* writes was executed for exactly one accepted value and carries the
\* integer part of that value.
UndebouncedWrites ==
    /\ DebounceSources = {}
    /\ debounce_source_id = 0
    /\ \A k \in 1..Len(writes) :
         /\ writes[k].burst.n = 1
         /\ writes[k].arg = IntOf(writes[k].burst.last)

Undebounced == props.cls = "SliderRow" /\ ~props.debounce

\* C29 as stated: with debouncing disabled no timer is ever armed, no
\* accepted value waits for its write and every write stands for exactly one
\* accepted value, which it carries: there are as many writes as accepted
\* values.
ImmediateWritePerAccepted ==
    Undebounced => (UndebouncedWrites /\ burst.n = 0)

\* C29 amended: the same, where an accepted value is written at once only
\* while the row has not been torn down.
ImmediateWritePerAcceptedIfAlive ==
    Undebounced => (UndebouncedWrites /\ (~is_destroyed => burst.n = 0))

\* C29 witness: of three inputs to a live slider without debouncing one was
\* a duplicate and the other two were written, each at once.
TwoAcceptedTwoWritten ==
    /\ Undebounced
    /\ ~is_destroyed
    /\ inputs = 3
    /\ Len(writes) = 2
    /\ writes[1].arg # writes[2].arg
    /\ slider.last_snapped = writes[2].burst.last

\* C30: once the row is torn down no step spawns a write command, and the
\* value that was pending at teardown stays unwritten, whether teardown
\* removed the debounce timer or the timer's callback ran after the flag
\* was set.
NoWriteAfterTeardown ==
    [][is_destroyed => writes' = writes]_vars

\* C30 witness: a value was pending on the debounce timer when the row was
\* torn down; the timer's callback ran before the harvested id was removed
\* and the value is still pending, unwritten.
PendingDroppedByLateCallback ==
    /\ props.debounce
    /\ is_destroyed
    /\ burst.n > 0
    /\ slider.pending_value = burst.last
    /\ returned[5] # 0
    /\ DebounceSources = {}
    /\ Unswept = {}
    /\ teardowns = 1
    /\ writes = <<>>

\* C31: no side effect of a user-action handler (command execution,
\* save_setting, debounce scheduling) was ever made by a handler that a
\* programmatic update caused to run, and after every update, also one
\* whose setter raised, the three reentrancy flags are clear.
ProgrammaticUpdateIsSilent ==
    /\ \A e \in effects : e.origin = "user"
    /\ ~guards.programmatic_update_event
    /\ ~guards.slider_changing
    /\ ~guards.programmatic_update

\* C31 witness: a value was pushed into the row (the switch is on, the
\* scale has a polled value, or another item is selected) and no handler
\* effect exists.
PushedWithoutEffect ==
    /\ effects = {}
    /\ ~is_destroyed
    /\ \/ props.cls = "ToggleRow" /\ ui.active
       \/ props.cls = "SliderRow" /\ slider.last_snapped # -1
       \/ props.cls = "SelectionRow" /\ ui.selected # 0

\* C32: at most one load of a LabelRow is queued or executing on the pool.
AtMostOneLabelLoad ==
    Cardinality({t \in DOMAIN tasks :
                    tasks[t].kind = "label" /\ tasks[t].step # "done"}) <= 1

\* C33: at most one selection fetch of a SelectionRow and at most one badge
\* fetch of a GridCard is queued or executing on the pool.
AtMostOneFetchPerWidget ==
    \A kind \in {"selection", "badge"} :
       Cardinality({t \in DOMAIN tasks :
                       tasks[t].kind = kind /\ tasks[t].step # "done"}) <= 1

\* C34: whatever get() returned to a thread was an executor, and one that
\* had not been shut down when it was returned.
GetReturnsLiveExecutor ==
    \A t \in Threads : callers[t].result \in {"none", "live"}

Computing(t, key) == waiters[t].pc = "computing" /\ waiters[t].key = key

\* C35: for every key at most one computation returned a value and at most
\* one thread is computing; every value a caller returned is the cached
\* one; a thread starts computing a key only when the key is neither
\* cached nor in flight; and while one key is being computed an idle
\* thread can start the computation of another key.
ComputedAtMostOnce ==
    /\ [](\A key \in Keys :
            /\ once.successes[key] <= 1
            /\ Cardinality({t \in Threads : Computing(t, key)}) <= 1
            /\ \A t \in Threads :
                  (waiters[t].key = key /\ waiters[t].result = "value")
                     => waiters[t].value = once.cache[key])
    /\ [](\A t1, t2 \in Threads, k1, k2 \in Keys :
            (/\ Computing(t1, k1) /\ waiters[t2].pc = "idle"
             /\ k2 \notin once.in_flight /\ once.cache[k2] = Absent)
              => ENABLED (Enter(t2, k2) /\ waiters'[t2].pc = "computing"))
    /\ [][\A t \in Threads, key \in Keys :
            (~Computing(t, key) /\ Computing(t, key)')
               => (key \notin once.in_flight /\ once.cache[key] = Absent)
         ]_vars

\* C35 witness: a thread that waited for another thread's computation has
\* returned that computation's value while a third thread is computing
\* the other key.
WaiterReturnedValue ==
    \E t1, t2 \in Threads :
       /\ waiters[t1].waited
       /\ waiters[t1].pc = "idle"
       /\ waiters[t1].result = "value"
       /\ waiters[t1].value = 1
       /\ waiters[t2].pc = "computing"
       /\ waiters[t2].key # waiters[t1].key

\* C36: a thread that waited for a computation in flight returns a value
\* when it wakes, also when that computation raised.
WaiterReturnsValue ==
    \A t \in Threads : waiters[t].result # "KeyError"

\* What a reader may find in the settings file: nothing, or one of the
\* contents in full.
Complete == Contents \cup {Missing}

\* C37: the settings file and everything load_setting read from it is a
\* complete content or no file; and a save_setting that has returned False
\* has not replaced the content of the target.
SaveIsAtomic ==
    /\ disk.target \in Complete
    /\ \A t \in Threads :
          /\ savers[t].result = "loaded" => savers[t].seen \in Complete
          /\ (savers[t].pc = "idle" /\ savers[t].result = "False")
                => ~savers[t].renamed

\* C38: after a hot reload that failed, config is the configuration from
\* before the reload and the sidebar rows and the pages of the stack are
\* those built from it.
ReloadRollsBack ==
    reload.result = "failed" =>
       /\ app.config = reload.old_config
       /\ app.sidebar = Rebuild(app.config).sidebar
       /\ app.stack = Rebuild(app.config).stack

\* C39: at most one search timeout is pending; search_debounce_source is
\* None exactly when none is pending and else the id of the pending one;
\* a pending timeout carries the text of the last search-changed event and
\* no search has run since that event; once the timeout of the last event
\* has fired exactly one search has run since the event, with its text.
SearchIsDebounced ==
    /\ Cardinality(timeouts) <= 1
    /\ (finder.search_debounce_source = None) <=> (timeouts = {})
    /\ \A tm \in timeouts :
          /\ tm.id = finder.search_debounce_source
          /\ tm.query = searched.text
          /\ searched.since = 0
    /\ (searched.event /\ timeouts = {} /\ finder.running)
          => (searched.since = 1 /\ searched.query = searched.text)

\* C39 witness: the last search-changed event cancelled the timeout of an
\* earlier one, and its own timeout has fired and searched for its text.
BurstSearchedOnce ==
    /\ searched.cancelled
    /\ searched.since = 1
    /\ searched.query = searched.text
    /\ searched.text # <<>>
    /\ timeouts = {}
    /\ finder.search_debounce_source = None
    /\ finder.visible = SearchPage

\* The tasks put on the queue so far, in the order they were put.
Enqueued == stt.transcribed \o stt.task_queue

\* C40: the tasks enqueued are the requests written, each once, with its
\* own path and model name, in the order of writing: always the first
\* requests written, and all of them once the FIFO has been read empty.
EveryRequestEnqueuedOnce ==
    /\ Len(Enqueued) <= Len(requests)
    /\ Enqueued = SubSeq(requests, 1, Len(Enqueued))
    /\ fifo = <<>> => Enqueued = requests

====
